---- MODULE Spec2Model ----
(***************************************************************************)
(* Rate-limited bulk synchronisation engine of the product proxy:          *)
(*   - StoreService: token bucket (consumeToken), resilient executor       *)
(*     (makeRequest), publication cache, updateProductSalesChannels;       *)
(*   - ProductService: adaptive bulk orchestrator.                         *)
(*   - the process: one StoreService instance per consumer;                *)
(*   - the operations that take channel names, and updateGoogleAttributes; *)
(*   - bulk operations (status poll, result processing), the streamed      *)
(*     endpoints of the ProductController, a re-invoked bulk update, the   *)
(*     single-entity lookup and the scan for products missing channels;    *)
(*   - updateProductSalesChannels against the remote's publications, the   *)
(*     SchedulerService, and one makeRequest call followed to its end.     *)
(* Time is counted in ticks of 100 ms and tokens in hundredths of a token, *)
(* so every rate and delay of the source is an integer.  Timers are kept   *)
(* as remaining ticks (the state is invariant under a shift of the clock). *)
(***************************************************************************)
EXTENDS Integers, Sequences, FiniteSets, TLC

----------------------------------------------------------------------------
(* Scales *)
TicksPerSecond == 10
TokenUnit == 100

(* Bounds of the exploration *)
NCallers == 2
MaxLatency == 1
MaxFaults == 3
MaxRetries == 1
MaxPublications == 5
MaxServed == 34
MaxShort == 3
MaxRequests == 2
MaxProducts == 2
NumIds == 2
LongRun == 61
MaxFlaky == 1

Callers == 1..NCallers

Min(a, b) == IF a <= b THEN a ELSE b
Max(a, b) == IF a >= b THEN a ELSE b
CeilDiv(a, b) == (a + b - 1) \div b
Pow2(n) == IF n <= 0 THEN 1 ELSE 2 ^ n

(* setTimeout(ms): the delay in ticks, rounded up to the next tick *)
Ms(ms) == CeilDiv(ms * TicksPerSecond, 1000)
(* a rate of num/den tokens per second, in token units per tick *)
Rate(num, den) == (num * TokenUnit) \div (den * TicksPerSecond)

----------------------------------------------------------------------------
(* StoreService.tokenBucket *)
maxTokens == 30 * TokenUnit
InitialBucket ==
  [tokens |-> 30 * TokenUnit, sinceRefill |-> 0, maxTokens |-> maxTokens,
   refillRate |-> Rate(1, 1)]

criticalRate == Rate(1, 2)
lowRate == Rate(1, 1)
plentyRate == Rate(2, 1)
throttledRate == Rate(2, 10)
RefillRates == {criticalRate, lowRate, plentyRate, throttledRate}

(* the longest time that still matters to a refill: after it the bucket is
   full at any rate *)
SaturationTicks == CeilDiv(maxTokens, throttledRate)

mutationBatchSize == 5
updateRetries == 3

VARIABLES
  tokenBucket,          \* [tokens, sinceRefill (= now - lastRefill), maxTokens, refillRate]
  publicationMapCache,  \* the cached publication map (its size), or NoCache
  faults,               \* failures the remote has answered so far
  call,                 \* per caller: the frame of its call into the StoreService
  remoteCalls, debits,  \* remote calls issued / consumeToken calls returned
  lostUpdate,           \* a caller resumed in consumeToken and overwrote another's update
  served, clock         \* consumeToken calls returned and ticks elapsed (burst scenario)

storeVars == <<tokenBucket, publicationMapCache, faults, call, remoteCalls, debits,
               lostUpdate, served, clock>>

VARIABLES
  operation,            \* "salesChannels" or "googleAttributes": which bulk update runs
  remoteMode,           \* how the remote behaves during the run
  productIds,           \* request.productIds
  opc,                  \* position of the orchestrator
  i, j,                 \* loop indexes (0-based, as in the source)
  maxConcurrent, consecutiveSuccesses, consecutiveFailures, lastBatchSuccessRate,
  batchSuccesses, batchFailures,
  results,              \* the promises of the current sub-group, in dispatch order
  updatedProducts, failedProducts, productErrors,
  response,             \* the UpdateResponse returned, or NoResponse
  dispatched,           \* how many entity updates have been started
  outcomeAt,            \* how the update of the entity at each input position ended
  chunks                \* what the chunks so far were like, and what the last head decided

orchVars == <<operation, remoteMode, productIds, opc, i, j, maxConcurrent,
              consecutiveSuccesses, consecutiveFailures, lastBatchSuccessRate,
              batchSuccesses, batchFailures, results, updatedProducts, failedProducts,
              productErrors, response, dispatched, outcomeAt, chunks>>

VARIABLES
  instances,            \* per owner of a StoreService instance: that instance's tokenBucket
  owner                 \* per owner: where its makeRequest call stands

procVars == <<instances, owner>>

VARIABLES
  channelCall           \* a StoreService operation that takes channel names

chanVars == <<channelCall>>

VARIABLES
  bulkOp,               \* a poll of a bulk operation, or the processing of its result
  stream,               \* a streamed bulk endpoint of the ProductController
  resume,               \* a bulk update and its re-invocation, with the remote's state
  lookup,               \* ProductService.autoUpdateGoogleAttributes over getProduct
  scan                  \* StoreService.getProductsMissingChannels

VARIABLES
  publish,              \* StoreService.updateProductSalesChannels and the remote's state
  scheduler,            \* a SchedulerService: its timer and its runs
  retry                 \* one makeRequest call and the remote it talks to

lateVars == <<publish, scheduler, retry>>
extVars == <<bulkOp, stream, resume, lookup, scan, lateVars>>

vars == <<storeVars, orchVars, procVars, chanVars, extVars>>

(* what an action of one component leaves alone *)
outsideStore == <<orchVars, procVars, chanVars, extVars>>
outsideOrch == <<storeVars, procVars, chanVars, extVars>>
outsideProc == <<storeVars, orchVars, chanVars, extVars>>
outsideChan == <<storeVars, orchVars, procVars, extVars>>
coreVars == <<storeVars, orchVars, procVars, chanVars, lateVars>>
earlyVars == <<storeVars, orchVars, procVars, chanVars, bulkOp, stream, resume, lookup,
               scan>>
outsidePublish == <<earlyVars, scheduler, retry>>
outsideScheduler == <<earlyVars, publish, retry>>
outsideRetry == <<earlyVars, publish, scheduler>>
outsideBulk == <<coreVars, stream, resume, lookup, scan>>
outsideStream == <<coreVars, bulkOp, resume, lookup, scan>>
outsideResume == <<coreVars, bulkOp, stream, lookup, scan>>
outsideLookup == <<coreVars, bulkOp, stream, resume, scan>>
outsideScan == <<coreVars, bulkOp, stream, resume, lookup>>

----------------------------------------------------------------------------
(* ProductService.bulkUpdateSalesChannels / bulkUpdateGoogleAttributes *)
batchSize == 10
initialConcurrency == 2
concurrencyCap == 3

Ids == 1..NumIds
Operations == {"salesChannels", "googleAttributes"}
NoResponse == [success |-> FALSE, returned |-> FALSE]

(* what one call of updateProductSalesChannels / updateGoogleAttributes can end in;
   setupFailed: getPublicationIds threw (sales channels only) *)
Outcomes == {"updated", "gqlThrottled", "gqlError", "userError", "exhausted", "clientError",
             "setupFailed"}

(* the message of the Error the StoreService throws: storeService.ts lines 420-455
   (sales channels) and 867-891 (Google attributes) *)
ErrorMessage(oper, outcome) ==
  IF oper = "salesChannels" THEN
    CASE outcome = "gqlThrottled" ->
           "Failed to update product sales channels: GraphQL error: Throttled"
      [] outcome = "gqlError" ->
           "Failed to update product sales channels: GraphQL error: Internal error"
      [] outcome = "userError" ->
           "Failed to update product sales channels: Mutation error: Publication not found"
      [] outcome = "exhausted" ->
           "Failed to update product sales channels: Request failed with status code 503. Status: 503"
      [] outcome = "setupFailed" ->
           "Failed to update product sales channels: Access denied for publications field"
      [] OTHER ->
           "Failed to update product sales channels: Request failed with status code 400. Status: 400"
  ELSE
    CASE outcome = "exhausted" ->
           "Failed to update Google attributes: Request failed with status code 503"
      [] outcome = "clientError" ->
           "Failed to update Google attributes: Request failed with status code 400"
      [] OTHER -> "Failed to update Google attributes"

(* errorMessage.includes('Throttled') || errorMessage.includes('THROTTLED') *)
includesThrottled(m) ==
  m = "Failed to update product sales channels: GraphQL error: Throttled"

(* an entity update whose client errors escape the catch *)
EntityResultRethrowing(id, oper, outcome) ==
  IF outcome = "updated"
    THEN [id |-> id, state |-> "settled", success |-> TRUE, error |-> "",
          rethrown |-> FALSE]
    ELSE [id |-> id, state |-> "settled", success |-> FALSE,
          error |-> ErrorMessage(oper, outcome), rethrown |-> outcome = "clientError"]

(* the callback of lines 69-84: the promise of one entity *)
PendingResult(id) ==
  [id |-> id, state |-> "pending", success |-> FALSE, error |-> "", rethrown |-> FALSE]
EntityResult(id, oper, outcome) ==
  IF outcome = "updated"
    THEN [id |-> id, state |-> "settled", success |-> TRUE, error |-> "",
          rethrown |-> FALSE]
    ELSE [id |-> id, state |-> "settled", success |-> FALSE,
          error |-> ErrorMessage(oper, outcome), rethrown |-> FALSE]

(* success rates are kept as successes / total *)
RateOf(succ, fail) == [s |-> succ, t |-> succ + fail]
FullRate(r) == r.t > 0 /\ r.s = r.t
RateBelow(r, num, den) == IF r.t = 0 THEN 0 < num ELSE r.s * den < num * r.t
RateAbove(r, num, den) == r.t > 0 /\ r.s * den > num * r.t

(* an adaptation without the floor of 1 *)
AdaptUnclamped(mc, cs, cf, last) ==
  IF cf >= 2
    THEN [maxConcurrent |-> mc - 1, consecutiveSuccesses |-> cs,
          consecutiveFailures |-> 0, penalty |-> TRUE]
  ELSE IF cs >= 3 /\ RateAbove(last, 9, 10) /\ mc < concurrencyCap
    THEN [maxConcurrent |-> mc + 1, consecutiveSuccesses |-> 0,
          consecutiveFailures |-> cf, penalty |-> FALSE]
  ELSE [maxConcurrent |-> mc, consecutiveSuccesses |-> cs, consecutiveFailures |-> cf,
        penalty |-> FALSE]

(* lines 41-56: the concurrency adjustment at the head of a chunk *)
Adapt(mc, cs, cf, last) ==
  IF cf >= 2
    THEN [maxConcurrent |-> Max(1, mc - 1), consecutiveSuccesses |-> cs,
          consecutiveFailures |-> 0, penalty |-> TRUE]
  ELSE IF cs >= 3 /\ RateAbove(last, 9, 10) /\ mc < concurrencyCap
    THEN [maxConcurrent |-> mc + 1, consecutiveSuccesses |-> 0,
          consecutiveFailures |-> cf, penalty |-> FALSE]
  ELSE [maxConcurrent |-> mc, consecutiveSuccesses |-> cs, consecutiveFailures |-> cf,
        penalty |-> FALSE]

(* Array.prototype.slice(from, to) on a 1-based sequence *)
Slice(seq, from, to) ==
  SubSeq(seq, from + 1, Min(to, Len(seq)))

(* a tally that puts each ID in front of its list *)
RECURSIVE TallyUnshifting(_, _)
TallyUnshifting(acc, rs) ==
  IF rs = <<>> THEN acc
  ELSE LET r == Head(rs) IN
    IF r.success
      THEN TallyUnshifting([acc EXCEPT !.updated = <<r.id>> \o @, !.succ = @ + 1],
                           Tail(rs))
      ELSE LET msg == IF r.error = "" THEN "Unknown error" ELSE r.error IN
        TallyUnshifting([acc EXCEPT !.failed = <<r.id>> \o @,
                                    !.errors = [k \in DOMAIN @ \cup {r.id} |->
                                                  IF k = r.id THEN msg ELSE @[k]],
                                    !.fail = @ + 1,
                                    !.cf = IF includesThrottled(msg) THEN @ + 1 ELSE @],
                        Tail(rs))

(* lines 92-110: the forEach over the settled results of a sub-group *)
RECURSIVE Tally(_, _)
Tally(acc, rs) ==
  IF rs = <<>> THEN acc
  ELSE LET r == Head(rs) IN
    IF r.success
      THEN Tally([acc EXCEPT !.updated = Append(@, r.id), !.succ = @ + 1], Tail(rs))
      ELSE LET msg == IF r.error = "" THEN "Unknown error" ELSE r.error IN
        Tally([acc EXCEPT !.failed = Append(@, r.id),
                          !.errors = [k \in DOMAIN @ \cup {r.id} |->
                                        IF k = r.id THEN msg ELSE @[k]],
                          !.fail = @ + 1,
                          !.cf = IF includesThrottled(msg) THEN @ + 1 ELSE @],
              Tail(rs))

(* lines 144-151: the streaks after a chunk *)
Streaks(cs, cf, rate) ==
  IF FullRate(rate) THEN [consecutiveSuccesses |-> cs + 1, consecutiveFailures |-> 0]
  ELSE IF RateBelow(rate, 1, 2)
    THEN [consecutiveSuccesses |-> 0, consecutiveFailures |-> cf + 1]
  ELSE [consecutiveSuccesses |-> cs, consecutiveFailures |-> cf]

(* a breakdown that counts each failed ID once *)
ErrorMapPerId(failed, errors) ==
  LET ids == {failed[k] : k \in 1..Len(failed)}
      msgs == {errors[id] : id \in ids} IN
    [m \in msgs |-> Cardinality({id \in ids : errors[id] = m})]

(* lines 173-198: the response *)
ErrorMapOf(failed, errors) ==
  LET msgs == {errors[failed[k]] : k \in 1..Len(failed)} IN
    [m \in msgs |-> Cardinality({k \in 1..Len(failed) : errors[failed[k]] = m})]
ResponseOf(updated, failed, errors) ==
  [success |-> Len(failed) = 0, returned |-> TRUE, updatedProducts |-> updated,
   failedProducts |-> failed, errorMap |-> ErrorMapOf(failed, errors)]

(* chunks: adapted is what the head of the current chunk did to maxConcurrent and
   before is maxConcurrent as that head found it; low (high) counts the chunks in a
   row, up to the last one accounted, whose success rate was below 0.5 (above 0.9),
   counted afresh after a decrease (an increase); accounted counts the chunks whose
   rate and streaks have been updated; delayMs is the delay being waited for
   (0 when none is); overtaken: some update of a sub-group has ended while an
   earlier one of the same sub-group was still pending *)
NoChunks == [adapted |-> "none", before |-> initialConcurrency, low |-> 0, high |-> 0,
             accounted |-> 0, delayMs |-> 0, overtaken |-> FALSE]

(* the orchestrator's frame *)
Cur ==
  [opc |-> opc, i |-> i, j |-> j, maxConcurrent |-> maxConcurrent,
   consecutiveSuccesses |-> consecutiveSuccesses,
   consecutiveFailures |-> consecutiveFailures,
   lastBatchSuccessRate |-> lastBatchSuccessRate, batchSuccesses |-> batchSuccesses,
   batchFailures |-> batchFailures, results |-> results,
   updatedProducts |-> updatedProducts, failedProducts |-> failedProducts,
   productErrors |-> productErrors, response |-> response, dispatched |-> dispatched,
   chunks |-> chunks]

Install(o) ==
  /\ opc' = o.opc /\ i' = o.i /\ j' = o.j
  /\ maxConcurrent' = o.maxConcurrent
  /\ consecutiveSuccesses' = o.consecutiveSuccesses
  /\ consecutiveFailures' = o.consecutiveFailures
  /\ lastBatchSuccessRate' = o.lastBatchSuccessRate
  /\ batchSuccesses' = o.batchSuccesses /\ batchFailures' = o.batchFailures
  /\ results' = o.results
  /\ updatedProducts' = o.updatedProducts /\ failedProducts' = o.failedProducts
  /\ productErrors' = o.productErrors
  /\ response' = o.response
  /\ dispatched' = o.dispatched
  /\ chunks' = o.chunks
  /\ UNCHANGED <<operation, remoteMode, productIds>>
  /\ UNCHANGED outsideOrch

(* a chunk that is never cut at batchSize *)
BatchUncut(o) == Slice(productIds, o.i, Len(productIds))

(* line 58 *)
Batch(o) == Slice(productIds, o.i, o.i + batchSize)

(* a dispatch that starts the whole chunk at once *)
DispatchWholeBatch(o) ==
  [o EXCEPT !.opc = "await",
            !.chunks.delayMs = 0,
            !.results = [k \in 1..Len(Batch(o)) |-> PendingResult(Batch(o)[k])],
            !.dispatched = @ + Len(Batch(o))]

(* lines 64-86: the entities of the sub-group at j are started, and awaited together *)
DispatchSubgroup(o) ==
  LET concurrentBatch == Slice(Batch(o), o.j, o.j + o.maxConcurrent) IN
    [o EXCEPT !.opc = "await",
              !.chunks.delayMs = 0,
              !.results = [k \in 1..Len(concurrentBatch) |->
                             PendingResult(concurrentBatch[k])],
              !.dispatched = @ + Len(concurrentBatch)]

(* lines 58-62: the chunk at i starts *)
StartBatch(o) ==
  DispatchSubgroup([o EXCEPT !.j = 0, !.batchSuccesses = 0, !.batchFailures = 0])

(* lines 119-131: the delay after a sub-group that is not the last one of its chunk *)
SubgroupDelayMs(rate) ==
  IF RateBelow(rate, 1, 2) THEN 5000 ELSE IF RateBelow(rate, 1, 1) THEN 2000 ELSE 1000

(* lines 154-167: the delay after a chunk that is not the last one *)
BatchDelayMs(rate) ==
  IF RateBelow(rate, 1, 2) THEN 10000 ELSE IF RateBelow(rate, 9, 10) THEN 5000 ELSE 2000

(* lines 173-198 *)
Finish(o) ==
  [o EXCEPT !.opc = "returned",
            !.response = ResponseOf(o.updatedProducts, o.failedProducts,
                                    o.productErrors)]

(* line 37 and lines 41-56: the head of the chunk loop *)
ChunkHead(o) ==
  IF ~(o.i < Len(productIds)) THEN Finish(o)
  ELSE LET a == Adapt(o.maxConcurrent, o.consecutiveSuccesses, o.consecutiveFailures,
                      o.lastBatchSuccessRate)
           o2 == [o EXCEPT !.maxConcurrent = a.maxConcurrent,
                           !.chunks.delayMs = 0,
                           !.consecutiveSuccesses = a.consecutiveSuccesses,
                           !.consecutiveFailures = a.consecutiveFailures,
                           !.chunks.before = o.maxConcurrent,
                           !.chunks.adapted =
                              IF a.penalty THEN "decreased"
                              ELSE IF a.maxConcurrent > o.maxConcurrent THEN "increased"
                              ELSE "none"] IN
         IF a.penalty THEN [o2 EXCEPT !.opc = "penalty"] ELSE StartBatch(o2)

(* lines 137-170: the chunk is over *)
ChunkEnd(o) ==
  LET rate == RateOf(o.batchSuccesses, o.batchFailures)
      st == Streaks(o.consecutiveSuccesses, o.consecutiveFailures, rate)
      o2 == [o EXCEPT !.lastBatchSuccessRate = rate,
                      !.consecutiveSuccesses = st.consecutiveSuccesses,
                      !.consecutiveFailures = st.consecutiveFailures,
                      !.chunks.low =
                         IF RateBelow(rate, 1, 2)
                           THEN (IF o.chunks.adapted = "decreased" THEN 0 ELSE @) + 1
                           ELSE 0,
                      !.chunks.high =
                         IF RateAbove(rate, 9, 10)
                           THEN (IF o.chunks.adapted = "increased" THEN 0 ELSE @) + 1
                           ELSE 0,
                      !.chunks.accounted = @ + 1,
                      !.chunks.adapted = "none"] IN
    IF o.i + batchSize < Len(productIds)
      THEN [o2 EXCEPT !.opc = "chunkDelay", !.chunks.delayMs = BatchDelayMs(rate)]
      ELSE ChunkHead([o2 EXCEPT !.i = @ + batchSize])

(* lines 88-135: the sub-group is settled *)
AfterSubgroup(o) ==
  LET t == Tally([updated |-> o.updatedProducts, failed |-> o.failedProducts,
                  errors |-> o.productErrors, succ |-> 0, fail |-> 0,
                  cf |-> o.consecutiveFailures], o.results)
      o2 == [o EXCEPT !.updatedProducts = t.updated, !.failedProducts = t.failed,
                      !.productErrors = t.errors,
                      !.batchSuccesses = @ + t.succ, !.batchFailures = @ + t.fail,
                      !.consecutiveFailures = t.cf] IN
    IF o.j + o.maxConcurrent < Len(Batch(o))
      THEN [o2 EXCEPT !.opc = "subDelay",
                      !.chunks.delayMs = SubgroupDelayMs(RateOf(t.succ, t.fail))]
      ELSE ChunkEnd(o2)

----------------------------------------------------------------------------
(* a refill that forgets the capacity of the bucket *)
RefilledUncapped(b) ==
  [b EXCEPT !.tokens = b.tokens + b.sinceRefill * b.refillRate, !.sinceRefill = 0]

(* consumeToken, lines 54-60: lazy refill *)
Refilled(b) ==
  [b EXCEPT !.tokens = Min(b.maxTokens, b.tokens + b.sinceRefill * b.refillRate),
            !.sinceRefill = 0]

(* consumeToken, lines 70 and 72: wait until the missing tokens are refilled, plus 200 ms *)
WaitTicks(b, cost) ==
  CeilDiv(cost * TokenUnit - b.tokens, b.refillRate) + Ms(200)

(* consumeToken up to its await: the bucket after it, and where the caller sleeps *)
ConsumeTokenEnter(b0, cost) ==
  LET b == Refilled(b0) IN
    IF b.tokens >= cost * TokenUnit
      THEN [bucket |-> [b EXCEPT !.tokens = @ - cost * TokenUnit],
            pc |-> "ctPace", timer |-> Ms(100)]
      ELSE [bucket |-> b, pc |-> "ctWait", timer |-> WaitTicks(b, cost)]

(* consumeToken after its await, lines 67 and 73-75 *)
ConsumeTokenResume(b, at) ==
  IF at = "ctWait" THEN [b EXCEPT !.tokens = 0, !.sinceRefill = 0] ELSE b

----------------------------------------------------------------------------
(* What the remote can answer to a POST of makeRequest *)
NoError == [axios |-> FALSE, status |-> 0, code |-> "none", marker |-> FALSE]
Errors ==
  { [axios |-> TRUE, status |-> 429, code |-> "none", marker |-> FALSE],
    [axios |-> TRUE, status |-> 503, code |-> "none", marker |-> TRUE],
    [axios |-> TRUE, status |-> 0, code |-> "ECONNABORTED", marker |-> FALSE],
    [axios |-> TRUE, status |-> 0, code |-> "ETIMEDOUT", marker |-> FALSE],
    [axios |-> TRUE, status |-> 500, code |-> "none", marker |-> FALSE],
    [axios |-> TRUE, status |-> 404, code |-> "none", marker |-> FALSE] }

(* x-shopify-shop-api-call-limit: absent, or used/limit *)
NoHeader == [used |-> 0, limit |-> 0]
Headers ==
  { NoHeader, [used |-> 10, limit |-> 40], [used |-> 33, limit |-> 40],
    [used |-> 39, limit |-> 40] }
Payloads == {"data", "errors", "userErrors"}

(* makeRequest, lines 126-130 *)
isThrottled(e) == e.axios /\ (e.status = 429 \/ e.marker)

(* a classification that takes every answer with an error status for transient *)
isTransientAnyStatus(e) ==
  e.axios /\ (e.code = "ECONNABORTED" \/ e.code = "ETIMEDOUT" \/ (e.status # 0 /\ e.status >= 400))

(* makeRequest, lines 150-155 *)
isTransient(e) ==
  e.axios /\ (e.code = "ECONNABORTED" \/ e.code = "ETIMEDOUT" \/ (e.status # 0 /\ e.status >= 500))

(* a loop that stops one attempt earlier *)
LoopConditionStrict(count, maxRetries) == count < maxRetries

(* makeRequest, line 83 *)
LoopCondition(count, maxRetries) == count <= maxRetries

(* a throttle wait that gets shorter as the failures add up *)
ThrottleWaitShrinking(count) == Ms(Pow2(4 - count) * 1000)

(* makeRequest, line 135 *)
ThrottleWaitTicks(count) == Ms(Pow2(count + 2) * 1000)

(* a throttle wait that leaves the attempt counted *)
AfterThrottleCounted(count) == count

(* makeRequest, line 145: a throttled attempt is not counted *)
AfterThrottle(count) == count - 1

(* makeRequest, line 157 *)
TransientDelayTicks(count) == Ms(Pow2(count) * 500)

(* makeRequest, lines 96-114: the bucket and the pause after a response with the header *)
Headroom(b, h) ==
  IF h = NoHeader THEN [bucket |-> b, pause |-> 0]
  ELSE IF 100 * (h.limit - h.used) < 5 * h.limit
    THEN [bucket |-> [b EXCEPT !.tokens = 0, !.refillRate = criticalRate], pause |-> Ms(2000)]
  ELSE IF 100 * (h.limit - h.used) < 20 * h.limit
    THEN [bucket |-> [b EXCEPT !.refillRate = lowRate], pause |-> Ms(1000)]
  ELSE [bucket |-> [b EXCEPT !.refillRate = plentyRate], pause |-> 0]

(* makeRequest, lines 139-140 *)
ThrottleReset(b) == [b EXCEPT !.tokens = 0, !.refillRate = throttledRate]

(* the three kinds of failure of section 4.2, read off the remote's answer *)
Kind(e) ==
  IF e.status = 429 \/ e.marker THEN "throttled"
  ELSE IF e.code \in {"ECONNABORTED", "ETIMEDOUT"} \/ e.status >= 500 THEN "transient"
  ELSE "client"
Seen(st, e) ==
  [st EXCEPT !.throttledSeen = IF Kind(e) = "throttled" THEN @ + 1 ELSE @,
             !.transientSeen = IF Kind(e) = "transient" THEN @ + 1 ELSE @,
             !.clientSeen = IF Kind(e) = "client" THEN @ + 1 ELSE @]

----------------------------------------------------------------------------
Ops == {"updateProductSalesChannels", "executeGraphQLQuery", "updateGoogleAttributes"}

(* publicationMapCache: null, or the map of the publications the remote listed *)
NoCache == -1
PublicationCounts == {0, MaxPublications}

IdleFrame ==
  [pc |-> "idle", timer |-> 0, op |-> "none", retries |-> 0, retryCount |-> 0,
   lastError |-> NoError, batchesLeft |-> 0, payload |-> "data", outcome |-> "pending",
   seenTokens |-> 0, thrown |-> NoError, throttledSeen |-> 0, transientSeen |-> 0,
   clientSeen |-> 0, attempts |-> 0, pauses |-> 0,
   waitTime |-> 0, previousWait |-> 0, header |-> NoHeader, attributes |-> "none"]

Sleeping == {"ctPace", "ctWait", "post", "pubFetch", "headroomWait", "throttleWait",
             "transientWait"}

(* a new makeRequest call: lines 80-81 *)
NewRequest(st, maxRetries) ==
  [st EXCEPT !.retries = maxRetries, !.retryCount = 0, !.lastError = NoError,
             !.thrown = NoError, !.throttledSeen = 0, !.transientSeen = 0, !.clientSeen = 0, !.attempts = 0,
             !.pauses = 0, !.waitTime = 0, !.previousWait = 0, !.header = NoHeader]

(* the caller's frame st and the bucket b after this step *)
Becomes(c, st, b) ==
  /\ call' = [call EXCEPT ![c] = st]
  /\ tokenBucket' = b

(* makeRequest, line 86: the attempt starts in consumeToken *)
Attempt(c, st, b) ==
  LET r == ConsumeTokenEnter(b, 1) IN
    Becomes(c, [st EXCEPT !.pc = r.pc, !.timer = r.timer, !.seenTokens = r.bucket.tokens],
            r.bucket)

(* makeRequest throws (lines 164 and 168); updateProductSalesChannels rethrows it
   (lines 440-455) *)
Throw(c, st, b) ==
  Becomes(c, [st EXCEPT !.pc = "done", !.timer = 0, !.thrown = st.lastError,
                        !.outcome = "raised"], b)

(* getPublicationIds throws inside updateProductSalesChannels (lines 323-331, 440-455) *)
SetupFailure(c, st, b) ==
  Becomes(c, [st EXCEPT !.pc = "done", !.timer = 0, !.outcome = "setupFailed"], b)

(* makeRequest, lines 83 and 168 *)
Continue(c, st, b) ==
  IF LoopCondition(st.retryCount, st.retries) THEN Attempt(c, st, b) ELSE Throw(c, st, b)

(* makeRequest returns the response (line 117); updateProductSalesChannels inspects
   it (lines 420-435) and goes on with the next group of mutations *)
Return(c, st, b) ==
  IF st.op = "executeGraphQLQuery"
    THEN Becomes(c, [st EXCEPT !.pc = "done", !.timer = 0, !.outcome = "returned"], b)
  ELSE IF st.payload # "data"
    THEN Becomes(c, [st EXCEPT !.pc = "done", !.timer = 0, !.outcome = "rejected"], b)
  ELSE IF st.batchesLeft > 1
    THEN Attempt(c, NewRequest([st EXCEPT !.batchesLeft = @ - 1], updateRetries), b)
  ELSE Becomes(c, [st EXCEPT !.pc = "done", !.timer = 0, !.batchesLeft = 0,
                             !.outcome = "updated"], b)

(* updateProductSalesChannels, lines 353-418, once the publication map is known *)
SendMutations(c, st, b, publicationMap) ==
  LET groups == CeilDiv(publicationMap, mutationBatchSize) IN
    IF groups = 0
      THEN Becomes(c, [st EXCEPT !.pc = "done", !.timer = 0, !.outcome = "updated"], b)
      ELSE Attempt(c, NewRequest([st EXCEPT !.batchesLeft = groups], updateRetries), b)

----------------------------------------------------------------------------
(* updateGoogleAttributes(entityId, attributes): the values of the attribute set are
   absent (undefined), empty (""), blank (white space only) or text *)
AttributeKeys == {"google_product_category", "color"}
AttributeValues == {"absent", "empty", "blank", "text"}
AttributeSets == [AttributeKeys -> AttributeValues]

(* a test that skips no value *)
TruthyAlways(value) == TRUE

(* line 764: if (!value) continue *)
Truthy(value) == value \in {"blank", "text"}

(* lines 755-837: the mutations built for the entity *)
GoogleMutations(isVariant, attributes) ==
  LET metafields == {key \in AttributeKeys :
                       /\ Truthy(attributes[key])
                       /\ ~(isVariant /\ key = "google_product_category")} IN
    IF metafields = {} THEN 0 ELSE 1

(* what the attribute set is like: every value absent or empty; every value
   absent, empty or blank; or some value a text *)
AttributeClass(attributes) ==
  IF \A key \in AttributeKeys : attributes[key] \in {"absent", "empty"} THEN "empty"
  ELSE IF \A key \in AttributeKeys : attributes[key] # "text" THEN "blank"
  ELSE "text"

----------------------------------------------------------------------------
(* Actions of the StoreService callers *)

(* executeGraphQLQuery(query, maxRetries, timeout) *)
CallExecute(c) ==
  /\ UNCHANGED outsideStore
  /\ call[c].pc = "idle"
  /\ \A d \in Callers : d < c => call[d].pc # "idle"
  /\ \E r \in 0..MaxRetries :
       Attempt(c, NewRequest([call[c] EXCEPT !.op = "executeGraphQLQuery"], r), tokenBucket)
  /\ UNCHANGED <<publicationMapCache, faults, remoteCalls, debits, lostUpdate,
                 served, clock>>

(* updateProductSalesChannels: getPublicationIds first (lines 304-327) *)
CallUpdate(c) ==
  /\ UNCHANGED outsideStore
  /\ call[c].pc = "idle"
  /\ \A d \in Callers : d < c => call[d].pc # "idle"
  /\ LET st == [call[c] EXCEPT !.op = "updateProductSalesChannels"] IN
       IF publicationMapCache # NoCache
         THEN SendMutations(c, st, tokenBucket, publicationMapCache) /\ UNCHANGED remoteCalls
         ELSE /\ \E lat \in 1..MaxLatency :
                   Becomes(c, [st EXCEPT !.pc = "pubFetch", !.timer = lat], tokenBucket)
              /\ remoteCalls' = remoteCalls + 1
  /\ UNCHANGED <<publicationMapCache, faults, debits, lostUpdate, served, clock>>

(* updateGoogleAttributes, lines 743-866 *)
CallUpdateGoogle(c) ==
  /\ UNCHANGED outsideStore
  /\ call[c].pc = "idle"
  /\ \A d \in Callers : d < c => call[d].pc # "idle"
  /\ \E isVariant \in BOOLEAN, attributes \in AttributeSets :
       SendMutations(c, [call[c] EXCEPT !.op = "updateGoogleAttributes",
                                        !.attributes = AttributeClass(attributes)],
                     tokenBucket, GoogleMutations(isVariant, attributes))
  /\ UNCHANGED <<publicationMapCache, faults, remoteCalls, debits, lostUpdate,
                 served, clock>>

(* getPublicationIds, lines 329-340, and the catch of updateProductSalesChannels *)
PublicationsReply(c) ==
  /\ UNCHANGED outsideStore
  /\ call[c].pc = "pubFetch" /\ call[c].timer = 0
  /\ \/ \E n \in PublicationCounts :
          /\ publicationMapCache' = n
          /\ SendMutations(c, call[c], tokenBucket, n)
          /\ UNCHANGED faults
     \/ /\ faults < MaxFaults
        /\ faults' = faults + 1
        /\ UNCHANGED publicationMapCache
        /\ SetupFailure(c, call[c], tokenBucket)
  /\ UNCHANGED <<remoteCalls, debits, lostUpdate, served, clock>>

(* consumeToken returns and makeRequest posts the request (lines 66-75, 88-91) *)
Post(c) ==
  /\ UNCHANGED outsideStore
  /\ call[c].pc \in {"ctPace", "ctWait"} /\ call[c].timer = 0
  /\ \E lat \in 1..MaxLatency :
       Becomes(c, [call[c] EXCEPT !.pc = "post", !.timer = lat, !.attempts = @ + 1],
               ConsumeTokenResume(tokenBucket, call[c].pc))
  /\ lostUpdate' = (lostUpdate \/ (call[c].pc = "ctWait"
                                   /\ tokenBucket.tokens # call[c].seenTokens))
  /\ debits' = debits + 1
  /\ remoteCalls' = remoteCalls + 1
  /\ UNCHANGED <<publicationMapCache, faults, served, clock>>

(* a response arrives: lines 93-117 *)
Success(c) ==
  /\ UNCHANGED outsideStore
  /\ call[c].pc = "post" /\ call[c].timer = 0
  /\ \E h \in Headers, p \in Payloads :
       /\ call[c].op = "executeGraphQLQuery" => p = "data"
       /\ LET hr == Headroom(tokenBucket, h)
              st == [call[c] EXCEPT !.payload = p, !.header = h] IN
            IF hr.pause > 0
              THEN Becomes(c, [st EXCEPT !.pc = "headroomWait", !.timer = hr.pause], hr.bucket)
              ELSE Return(c, st, hr.bucket)
  /\ UNCHANGED <<publicationMapCache, faults, remoteCalls, debits, lostUpdate,
                 served, clock>>

(* the pause of lines 105 and 110 is over: line 117 *)
HeadroomDone(c) ==
  /\ UNCHANGED outsideStore
  /\ call[c].pc = "headroomWait" /\ call[c].timer = 0
  /\ Return(c, call[c], tokenBucket)
  /\ UNCHANGED <<publicationMapCache, faults, remoteCalls, debits, lostUpdate,
                 served, clock>>

(* the request fails: lines 118-165 *)
Failure(c) ==
  /\ UNCHANGED outsideStore
  /\ call[c].pc = "post" /\ call[c].timer = 0
  /\ faults < MaxFaults
  /\ faults' = faults + 1
  /\ \E e \in Errors :
       LET st == Seen([call[c] EXCEPT !.lastError = e, !.retryCount = @ + 1], e) IN
         IF isThrottled(e)
           THEN Becomes(c, [st EXCEPT !.pc = "throttleWait",
                                      !.timer = ThrottleWaitTicks(st.retryCount),
                                      !.pauses = @ + 1,
                                      !.previousWait = st.waitTime,
                                      !.waitTime = ThrottleWaitTicks(st.retryCount)],
                        ThrottleReset(tokenBucket))
         ELSE IF isTransient(e)
           THEN Becomes(c, [st EXCEPT !.pc = "transientWait",
                                      !.timer = TransientDelayTicks(st.retryCount),
                                      !.pauses = @ + 1],
                        tokenBucket)
         ELSE Throw(c, st, tokenBucket)
  /\ UNCHANGED <<publicationMapCache, remoteCalls, debits, lostUpdate, served, clock>>

(* lines 142-146 *)
ThrottleWaitDone(c) ==
  /\ UNCHANGED outsideStore
  /\ call[c].pc = "throttleWait" /\ call[c].timer = 0
  /\ Continue(c, [call[c] EXCEPT !.retryCount = AfterThrottle(@)], tokenBucket)
  /\ UNCHANGED <<publicationMapCache, faults, remoteCalls, debits, lostUpdate,
                 served, clock>>

(* lines 159-160 *)
TransientWaitDone(c) ==
  /\ UNCHANGED outsideStore
  /\ call[c].pc = "transientWait" /\ call[c].timer = 0
  /\ Continue(c, call[c], tokenBucket)
  /\ UNCHANGED <<publicationMapCache, faults, remoteCalls, debits, lostUpdate,
                 served, clock>>

(* time passes up to the next expiry; a due timer fires before time goes on *)
Suspended == {c \in Callers : call[c].pc \in Sleeping}
NextExpiry == CHOOSE d \in {call[c].timer : c \in Suspended} :
                \A c \in Suspended : d <= call[c].timer
Elapse(d) ==
  /\ call' = [c \in Callers |->
                IF c \in Suspended THEN [call[c] EXCEPT !.timer = @ - d] ELSE call[c]]
  /\ tokenBucket' = [tokenBucket EXCEPT !.sinceRefill = Min(SaturationTicks, @ + d)]

Tick ==
  /\ UNCHANGED outsideStore
  /\ Suspended # {}
  /\ NextExpiry > 0
  /\ Elapse(NextExpiry)
  /\ UNCHANGED <<publicationMapCache, faults, remoteCalls, debits, lostUpdate,
                 served, clock>>

StoreInit ==
  /\ tokenBucket = InitialBucket
  /\ publicationMapCache = NoCache
  /\ faults = 0
  /\ call = [c \in Callers |-> IdleFrame]
  /\ remoteCalls = 0 /\ debits = 0
  /\ lostUpdate = FALSE
  /\ served = 0 /\ clock = 0

(* no bulk update is running *)
OrchIdle ==
  /\ operation = "salesChannels" /\ remoteMode = "any" /\ productIds = <<>>
  /\ opc = "idle"
  /\ i = 0 /\ j = 0
  /\ maxConcurrent = initialConcurrency
  /\ consecutiveSuccesses = 0 /\ consecutiveFailures = 0
  /\ lastBatchSuccessRate = RateOf(1, 0)
  /\ batchSuccesses = 0 /\ batchFailures = 0
  /\ results = <<>>
  /\ updatedProducts = <<>> /\ failedProducts = <<>>
  /\ productErrors = <<>>
  /\ response = NoResponse
  /\ dispatched = 0
  /\ outcomeAt = <<>>
  /\ chunks = NoChunks

(* the StoreService instances of the process have issued no request *)
Owners == {"ProductController", "SchedulerService"}
(* requests: the attempts the owner has issued so far *)
IdleOwner == [pc |-> "idle", timer |-> 0, requests |-> 0]
ProcInit ==
  /\ instances = [o \in Owners |-> InitialBucket]
  /\ owner = [o \in Owners |-> IdleOwner]

(* no operation has been given channel names *)
NoChannelCall ==
  [op |-> "none", pc |-> "idle", publicationMap |-> {}, salesChannels |-> {},
   products |-> 0, published |-> {}, unpublished |-> {}, documents |-> 0,
   error |-> "none", remote |-> "none"]
ChanInit == channelCall = NoChannelCall

(* no bulk operation is polled or processed.  remote: the node the remote reports;
   reported: what checkBulkOperationStatus returned; http: the status code of the
   HTTP response (0: none); updated: the positions of productIds counted in
   updatedCount; rejected: the positions whose aliased sub-mutation came back with
   userErrors *)
NoBulkOp ==
  [pc |-> "idle", caller |-> "none",
   remote |-> [errors |-> FALSE, status |-> "none", url |-> "none",
               partialDataUrl |-> "none"],
   reported |-> [thrown |-> "none", status |-> "none", url |-> "none"],
   http |-> 0, operationStatus |-> [thrown |-> "none", status |-> "none", url |-> "none"],
   event |-> "none", error |-> "none",
   result |-> "none", downloaded |-> FALSE,
   lines |-> <<>>, k |-> 0, productIds |-> <<>>, publications |-> 0, i |-> 0,
   documents |-> 0, updated |-> {}, rejected |-> {}, updatedCount |-> 0,
   failedCount |-> 0]

(* nothing runs outside the core.  scan: the catalogue is size products in the
   remote's order, identified by their position; cursor is the position of the last
   product read; collected: every ID pushed so far, on whichever list.  lookup: per entity settled so far, the remote's
   answer to getProduct, what getProduct gave back, and the reason the entity was
   recorded with ("none": it is in updatedProducts).  resume: remote is, per product, the set of
   channels the remote has it published to (initial: before the first run,
   afterFirst: when the first run returned); todo: the entities the running
   invocation has not settled yet.  stream: the handler has not been called (total:
   productIds.length; started: the calls of the ProductService so far; deadline: the
   value of started when the request timeout fired, -1 before) *)
NoPublish ==
  [pc |-> "idle", remote |-> 0, productId |-> [form |-> "bare", number |-> 0],
   salesChannels |-> {}, before |-> {}, after |-> {}, mutations |-> <<>>, i |-> 0,
   groups |-> <<>>]
NoScheduler ==
  [cronJob |-> FALSE, isRunning |-> FALSE, runs |-> <<>>, calls |-> 0, skipped |-> 0,
   remoteCalls |-> 0]
NoRetry ==
  [pc |-> "idle", remote |-> "answers", throttles |-> 0, retries |-> 0, retryCount |-> 0,
   waitTime |-> 0, lastError |-> NoError]
ExtInit ==
  /\ bulkOp = NoBulkOp
  /\ stream = [pc |-> "idle", total |-> 0, i |-> 0, processed |-> 0,
               totalSuccesses |-> 0, totalFailures |-> 0, events |-> <<>>,
               started |-> 0, deadline |-> -1]
  /\ resume = [pc |-> "idle", salesChannels |-> {}, initial |-> <<>>,
               remote |-> <<>>, afterFirst |-> <<>>, todo |-> {},
               updatedProducts |-> {}, failedProducts |-> {}]
  /\ lookup = [pc |-> "idle", productIds |-> 0, answers |-> <<>>, products |-> <<>>,
               reasons |-> <<>>, raised |-> FALSE]
  /\ scan = [pc |-> "idle", catalogue |-> [size |-> 0, lacking |-> "none"],
             cursor |-> 0, productsMissingChannels |-> {}, collected |-> {},
             result |-> {}, returned |-> FALSE, raised |-> FALSE, errorsAt |-> -1,
             again |-> FALSE]
  /\ publish = NoPublish
  /\ scheduler = NoScheduler
  /\ retry = NoRetry

StoreNext ==
  \/ \E c \in Callers : CallExecute(c)
  \/ \E c \in Callers : CallUpdate(c)
  \/ \E c \in Callers : PublicationsReply(c)
  \/ \E c \in Callers : Post(c)
  \/ \E c \in Callers : Success(c)
  \/ \E c \in Callers : HeadroomDone(c)
  \/ \E c \in Callers : Failure(c)
  \/ \E c \in Callers : ThrottleWaitDone(c)
  \/ \E c \in Callers : TransientWaitDone(c)
  \/ Tick

(* the StoreService alone: no bulk update is running *)
StoreAlone == StoreInit /\ OrchIdle /\ ProcInit /\ ChanInit /\ ExtInit

SpecStore == StoreAlone /\ [][StoreNext]_vars

(* the callers update Google attributes *)
GoogleNext ==
  \/ \E c \in Callers : CallUpdateGoogle(c)
  \/ \E c \in Callers : Post(c)
  \/ \E c \in Callers : Success(c)
  \/ \E c \in Callers : HeadroomDone(c)
  \/ \E c \in Callers : Failure(c)
  \/ \E c \in Callers : ThrottleWaitDone(c)
  \/ \E c \in Callers : TransientWaitDone(c)
  \/ Tick

SpecGoogle == StoreAlone /\ [][GoogleNext]_vars

----------------------------------------------------------------------------
(* A burst of consumeToken(1) calls on a bucket whose refillRate stays as constructed:
   every caller asks again as soon as its call has returned *)
InFlight == Cardinality({c \in Callers : call[c].pc # "idle"})

BurstEnter(c) ==
  /\ UNCHANGED outsideStore
  /\ call[c].pc = "idle"
  /\ served + InFlight < MaxServed
  /\ Attempt(c, call[c], tokenBucket)
  /\ UNCHANGED <<publicationMapCache, faults, remoteCalls, debits, lostUpdate, served,
                 clock>>

BurstReturn(c) ==
  /\ UNCHANGED outsideStore
  /\ call[c].pc \in {"ctPace", "ctWait"} /\ call[c].timer = 0
  /\ Becomes(c, IdleFrame, ConsumeTokenResume(tokenBucket, call[c].pc))
  /\ lostUpdate' = (lostUpdate \/ (call[c].pc = "ctWait"
                                   /\ tokenBucket.tokens # call[c].seenTokens))
  /\ served' = served + 1
  /\ debits' = debits + 1
  /\ UNCHANGED <<publicationMapCache, faults, remoteCalls, clock>>

BurstTick ==
  /\ UNCHANGED outsideStore
  /\ Suspended # {}
  /\ NextExpiry > 0
  /\ \A c \in Callers : call[c].pc = "idle" => served + InFlight >= MaxServed
  /\ Elapse(NextExpiry)
  /\ clock' = clock + NextExpiry
  /\ UNCHANGED <<publicationMapCache, faults, remoteCalls, debits, lostUpdate, served>>

BurstNext ==
  \/ \E c \in Callers : BurstEnter(c)
  \/ \E c \in Callers : BurstReturn(c)
  \/ BurstTick

SpecConsume == StoreAlone /\ [][BurstNext]_vars

----------------------------------------------------------------------------
(* The process: the ProductController (productRoutes.ts) and the SchedulerService
   (app.ts) each construct a StoreService of their own, and each StoreService
   constructs its tokenBucket.  Each owner issues makeRequest calls on its instance. *)

OwnerBecomes(o, st, b) ==
  /\ owner' = [owner EXCEPT ![o] = st]
  /\ instances' = [instances EXCEPT ![o] = b]
  /\ UNCHANGED outsideProc

OwnerAttempt(o, st) ==
  LET r == ConsumeTokenEnter(instances[o], 1) IN
    OwnerBecomes(o, [st EXCEPT !.pc = r.pc, !.timer = r.timer, !.requests = @ + 1],
                 r.bucket)

(* makeRequest is called on the owner's StoreService: consumeToken up to its await *)
OwnerRequest(o) ==
  /\ owner[o].pc = "idle"
  /\ owner[o].requests < MaxRequests
  /\ OwnerAttempt(o, owner[o])

(* consumeToken returns and the POST is issued *)
OwnerPost(o) ==
  /\ owner[o].pc \in {"ctPace", "ctWait"} /\ owner[o].timer = 0
  /\ \E lat \in 1..MaxLatency :
       OwnerBecomes(o, [owner[o] EXCEPT !.pc = "post", !.timer = lat],
                    ConsumeTokenResume(instances[o], owner[o].pc))

(* the response arrives: rate-limit header feedback on the instance's bucket *)
OwnerAnswered(o) ==
  /\ owner[o].pc = "post" /\ owner[o].timer = 0
  /\ \E h \in Headers :
       LET hr == Headroom(instances[o], h) IN
         OwnerBecomes(o, [owner[o] EXCEPT
                            !.pc = IF hr.pause > 0 THEN "headroomWait" ELSE "idle",
                            !.timer = hr.pause],
                      hr.bucket)

(* the remote throttles the request: the instance's bucket is reset *)
OwnerThrottled(o) ==
  /\ owner[o].pc = "post" /\ owner[o].timer = 0
  /\ owner[o].requests < MaxRequests
  /\ OwnerBecomes(o, [owner[o] EXCEPT !.pc = "throttleWait",
                                      !.timer = ThrottleWaitTicks(1)],
                  ThrottleReset(instances[o]))

(* a pause of makeRequest is over *)
OwnerResumed(o) ==
  /\ owner[o].pc \in {"headroomWait", "throttleWait"} /\ owner[o].timer = 0
  /\ IF owner[o].pc = "throttleWait"
       THEN OwnerAttempt(o, owner[o])
       ELSE OwnerBecomes(o, [owner[o] EXCEPT !.pc = "idle"], instances[o])

OwnersAsleep == {o \in Owners : owner[o].pc \in Sleeping}
OwnerExpiry == CHOOSE d \in {owner[o].timer : o \in OwnersAsleep} :
                 \A o \in OwnersAsleep : d <= owner[o].timer

ProcTick ==
  /\ OwnersAsleep # {}
  /\ OwnerExpiry > 0
  /\ owner' = [o \in Owners |->
                 IF o \in OwnersAsleep THEN [owner[o] EXCEPT !.timer = @ - OwnerExpiry]
                                       ELSE owner[o]]
  /\ instances' = [o \in Owners |->
                     [instances[o] EXCEPT
                        !.sinceRefill = Min(SaturationTicks, @ + OwnerExpiry)]]
  /\ UNCHANGED outsideProc

ProcNext ==
  \/ \E o \in Owners : OwnerRequest(o)
  \/ \E o \in Owners : OwnerPost(o)
  \/ \E o \in Owners : OwnerAnswered(o)
  \/ \E o \in Owners : OwnerThrottled(o)
  \/ \E o \in Owners : OwnerResumed(o)
  \/ ProcTick

ProcAlone == StoreInit /\ OrchIdle /\ ProcInit /\ ChanInit /\ ExtInit

SpecProcess == ProcAlone /\ [][ProcNext]_vars

(* C11 as stated: there is a single token bucket per process: whichever owner a
   makeRequest call comes from, it debits and adjusts the same bucket, so that the
   bucket one owner paces itself with is the bucket of every other owner. *)
C11_SingleBucketPerProcess ==
  \A o1, o2 \in Owners : instances[o1] = instances[o2]

----------------------------------------------------------------------------
(* The operations of the StoreService that take channel names, seen from the names:
   publicationMap holds the names of the remote's current publication list (each
   with its publication ID), salesChannels the names asked for. *)
KnownChannels == {"Online Store", "Point of Sale"}
UnknownChannel == "Ghost"
ChannelNames == KnownChannels \cup {UnknownChannel}

(* the names asked for, taken as they are *)
PublicationIdsUnfiltered(salesChannels, publicationMap) == salesChannels

(* lines 466-468 and 583-585: salesChannels.filter(channel => publicationMap.has(channel)) *)
PublicationIdsToPublish(salesChannels, publicationMap) ==
  {channel \in salesChannels : channel \in publicationMap}

(* line 591: Math.max(5, Math.floor(20 / n)); 20 / 0 is Infinity, and every product
   is in the first batch *)
Documents(products, n) ==
  IF n = 0 THEN 1 ELSE CeilDiv(products, Max(5, 20 \div n))

(* updateProductSalesChannels, lines 353-398: one mutation per publication of the
   map, publish if its name is asked for and unpublish if not *)
ChannelsUpdate ==
  /\ channelCall.pc = "idle"
  /\ \E publicationMap \in SUBSET KnownChannels, salesChannels \in SUBSET ChannelNames :
       LET published == {channel \in publicationMap : channel \in salesChannels}
           documents == CeilDiv(Cardinality(publicationMap), mutationBatchSize) IN
         channelCall' = [NoChannelCall EXCEPT
                           !.op = "updateProductSalesChannels",
                           !.pc = IF documents = 0 THEN "done" ELSE "sent",
                           !.publicationMap = publicationMap,
                           !.salesChannels = salesChannels,
                           !.products = 1,
                           !.published = published,
                           !.unpublished = publicationMap \ published,
                           !.documents = documents]
  /\ UNCHANGED outsideChan

(* StoreService.bulkUpdateSalesChannels, lines 462-504 and 533-536 *)
ChannelsBulkStart ==
  /\ channelCall.pc = "idle"
  /\ \E publicationMap \in SUBSET KnownChannels, salesChannels \in SUBSET ChannelNames :
       LET ids == PublicationIdsToPublish(salesChannels, publicationMap)
           st == [NoChannelCall EXCEPT !.op = "bulkUpdateSalesChannels",
                                       !.publicationMap = publicationMap,
                                       !.salesChannels = salesChannels] IN
         channelCall' =
           IF ids = {}
             THEN [st EXCEPT !.pc = "done", !.error = "No valid publication IDs found"]
             ELSE [st EXCEPT !.pc = "sent", !.documents = 1]
  /\ UNCHANGED outsideChan

(* processBulkOperationForSalesChannels, lines 581-651: per batch of products one
   document with a publish mutation per product and publication to publish *)
ChannelsProcess ==
  /\ channelCall.pc = "idle"
  /\ \E publicationMap \in SUBSET KnownChannels, salesChannels \in SUBSET ChannelNames,
        products \in 1..MaxProducts :
       LET ids == PublicationIdsToPublish(salesChannels, publicationMap) IN
         channelCall' = [NoChannelCall EXCEPT
                           !.op = "processBulkOperationForSalesChannels",
                           !.pc = "sent",
                           !.publicationMap = publicationMap,
                           !.salesChannels = salesChannels,
                           !.products = products,
                           !.published = ids,
                           !.documents = Documents(products, Cardinality(ids))]
  /\ UNCHANGED outsideChan

(* the remote answers the documents sent *)
ChannelsReply ==
  /\ channelCall.pc = "sent"
  /\ \E answer \in {"data", "errors"} :
       channelCall' = [channelCall EXCEPT !.pc = "done", !.remote = answer]
  /\ UNCHANGED outsideChan

ChanNext ==
  \/ ChannelsUpdate
  \/ ChannelsBulkStart
  \/ ChannelsProcess
  \/ ChannelsReply

ChanAlone == StoreInit /\ OrchIdle /\ ProcInit /\ ChanInit /\ ExtInit

SpecChannels == ChanAlone /\ [][ChanNext]_vars

Recognised == channelCall.salesChannels \cap channelCall.publicationMap

(* C19 as stated: a name that is not in the publication list is never an error, in
   each of the three operations, also when none of the names given is recognised. *)
C19_UnknownChannelNeverAnError ==
  channelCall.salesChannels # {} => channelCall.error = "none"

(* C19 as amended: no mutation is ever built for a name that is not in the
   publication list.  updateProductSalesChannels and
   processBulkOperationForSalesChannels raise no error over the names, whatever they
   are; StoreService.bulkUpdateSalesChannels raises none as long as one of the names
   is recognised, and raises "No valid publication IDs found" when none is. *)
C19_UnknownChannelIgnored ==
  channelCall.pc # "idle" =>
    /\ channelCall.published = (IF channelCall.op = "bulkUpdateSalesChannels"
                                  THEN {} ELSE Recognised)
    /\ channelCall.unpublished \subseteq channelCall.publicationMap
    /\ UnknownChannel \notin channelCall.published \cup channelCall.unpublished
    /\ channelCall.op # "bulkUpdateSalesChannels" => channelCall.error = "none"
    /\ channelCall.op = "bulkUpdateSalesChannels" =>
         /\ channelCall.error = "none" <=> Recognised # {}
         /\ channelCall.error # "none" =>
              channelCall.documents = 0 /\ channelCall.remote = "none"

(* an unknown name was given with a recognised one: the products were published to
   the recognised one and the remote accepted the document *)
C19_Witness ==
  /\ channelCall.op = "processBulkOperationForSalesChannels"
  /\ UnknownChannel \in channelCall.salesChannels
  /\ channelCall.published # {}
  /\ channelCall.pc = "done" /\ channelCall.remote = "data"

----------------------------------------------------------------------------
(* Bulk operations: StoreService.checkBulkOperationStatus, the HTTP handler
   ProductController.processBulkOperationSalesChannels built on it, and
   StoreService.processBulkOperationForSalesChannels *)
(* what the remote answers to the status query: GraphQL errors, or the node of the
   operation.  The remote sets url on a completed operation that has a result, and
   partialDataUrl on one that ended without completing. *)
BulkAnswers ==
  {[NoBulkOp.remote EXCEPT !.errors = TRUE]} \cup
  {n \in [errors : {FALSE},
          status : {"CREATED", "RUNNING", "COMPLETED", "FAILED", "CANCELED"},
          url : {"none", "result"}, partialDataUrl : {"none", "partial"}] :
     /\ n.url # "none" => n.status = "COMPLETED"
     /\ n.partialDataUrl # "none" => n.status \in {"FAILED", "CANCELED"}}

(* a status check that raises unless the operation is completed *)
CheckStatusRaising(answer) ==
  IF answer.errors \/ answer.status # "COMPLETED"
    THEN [NoBulkOp.reported EXCEPT !.thrown = "GraphQL error"]
    ELSE [thrown |-> "none", status |-> answer.status, url |-> answer.url]

(* checkBulkOperationStatus, lines 729-740 *)
CheckBulkOperationStatus(answer) ==
  IF answer.errors
    THEN [NoBulkOp.reported EXCEPT !.thrown = "GraphQL error"]
    ELSE [thrown |-> "none", status |-> answer.status,
          url |-> IF answer.url # "none" THEN answer.url ELSE answer.partialDataUrl]

(* the lines of the downloaded result: text that is not JSON, an object without id,
   or a product with its gid, "gid://shopify/Product/<n>" split at "/" *)
MaxLines == 3
ResultStreams ==
  LET Product(n) == [json |-> "object", id |-> <<"gid:", "", "shopify", "Product", n>>]
      NoId == [json |-> "object", id |-> <<>>]
      Malformed == [json |-> "malformed", id |-> <<>>]
      LineKinds == {Malformed, NoId, Product(1), Product(2)} IN
    UNION {[1..n -> LineKinds] : n \in 1..MaxLines}
      \cup {<<Product(1), Product(2), Malformed, Product(1), NoId, Product(2),
              Product(1), Product(2)>>}

(* a loop body that gives up at a line it cannot parse *)
ParseLineAborting(found, line) ==
  IF line.json = "malformed" THEN [productIds |-> <<>>, raised |-> TRUE]
  ELSE IF line.id = <<>> THEN [productIds |-> found, raised |-> FALSE]
  ELSE [productIds |-> Append(found, line.id[Len(line.id)]), raised |-> FALSE]

(* processBulkOperationForSalesChannels, lines 566-577: JSON.parse in a try whose
   catch only logs; product.id.split('/').pop() *)
ParseLine(found, line) ==
  IF line.json = "malformed" THEN [productIds |-> found, raised |-> FALSE]
  ELSE IF line.id = <<>> THEN [productIds |-> found, raised |-> FALSE]
  ELSE [productIds |-> Append(found, line.id[Len(line.id)]), raised |-> FALSE]

(* processBulkOperationForSalesChannels raises (lines 691-694); under the HTTP
   handler the error becomes an 'error' event of the stream (part_008, 129-137) *)
BulkRaise(st) ==
  IF st.http = 200 THEN [st EXCEPT !.pc = "done", !.event = "error"]
  ELSE [st EXCEPT !.pc = "done", !.error = "Failed to process bulk operation results"]

(* processBulkOperationForSalesChannels returns its counts (lines 685-690); the HTTP
   handler sends them as the 'completed' event (part_008, 120-128) *)
BulkReturn(st) ==
  [st EXCEPT !.pc = "done", !.result = "returned",
             !.event = IF st.http = 200 THEN "completed" ELSE "none"]

(* one of the three entry points is called for an operation of the remote;
   publications: the number of recognised channel names *)
BulkCall ==
  /\ bulkOp.pc = "idle"
  /\ \E caller \in {"checkBulkOperationStatus", "processBulkOperationSalesChannels",
                    "processBulkOperationForSalesChannels"},
        answer \in BulkAnswers, n \in {1, 4} :
       bulkOp' = [NoBulkOp EXCEPT !.pc = "polling", !.caller = caller,
                                  !.remote = answer, !.publications = n]
  /\ UNCHANGED outsideBulk

(* the status query is answered: checkBulkOperationStatus returns or raises
   (lines 729-740), the HTTP handler answers 400 or starts the stream and calls
   the service (part_008, 73-115 and 138-143), the service goes on to the download
   or raises (lines 547-555) *)
BulkPolled ==
  /\ bulkOp.pc = "polling"
  /\ LET r == CheckBulkOperationStatus(bulkOp.remote)
         st == [bulkOp EXCEPT !.reported = r] IN
       bulkOp' =
         IF bulkOp.caller = "checkBulkOperationStatus"
           THEN [st EXCEPT !.pc = "done", !.error = r.thrown,
                           !.result = IF r.thrown = "none" THEN "returned" ELSE "none"]
         ELSE IF bulkOp.caller = "processBulkOperationSalesChannels"
           THEN IF r.thrown # "none" THEN [st EXCEPT !.pc = "done", !.http = 500]
                ELSE IF r.status # "COMPLETED"
                  THEN [st EXCEPT !.pc = "done", !.http = 400, !.operationStatus = r]
                ELSE [st EXCEPT !.http = 200,
                                !.caller = "processBulkOperationForSalesChannels"]
         ELSE IF r.thrown # "none" \/ r.status # "COMPLETED" \/ r.url = "none"
           THEN BulkRaise(st)
         ELSE [st EXCEPT !.pc = "downloading"]
  /\ UNCHANGED outsideBulk

(* axios.get(status.url), lines 559-564 *)
BulkDownloaded ==
  /\ bulkOp.pc = "downloading"
  /\ \/ \E lines \in ResultStreams :
          bulkOp' = [bulkOp EXCEPT !.pc = "parsing", !.downloaded = TRUE,
                                   !.lines = lines, !.k = 1]
     \/ bulkOp' = BulkRaise(bulkOp)
  /\ UNCHANGED outsideBulk

(* one turn of the loop over the lines (566-577); after the last line the batches
   start, or the call returns when no product was found (599) *)
BulkParseLine ==
  /\ bulkOp.pc = "parsing"
  /\ LET r == ParseLine(bulkOp.productIds, bulkOp.lines[bulkOp.k])
         st == [bulkOp EXCEPT !.productIds = r.productIds, !.k = @ + 1] IN
       bulkOp' =
         IF r.raised THEN BulkRaise(st)
         ELSE IF bulkOp.k < Len(bulkOp.lines) THEN st
         ELSE IF r.productIds = <<>> THEN BulkReturn(st)
         ELSE [st EXCEPT !.pc = "batching"]
  /\ UNCHANGED outsideBulk

(* one turn of the loop over the batches (599-674): the document of the batch is
   posted and the remote answers with data (some aliases possibly with userErrors),
   with GraphQL errors, or makeRequest raises *)
BulkBatchReply ==
  /\ bulkOp.pc = "batching"
  /\ LET size == Max(5, 20 \div bulkOp.publications)
         batch == {p \in 1..Len(bulkOp.productIds) : bulkOp.i < p /\ p <= bulkOp.i + size}
         After(st) == IF st.i >= Len(st.productIds) THEN BulkReturn(st) ELSE st IN
       \E answer \in {"data", "errors", "thrown"}, rejected \in SUBSET batch :
         /\ answer # "data" => rejected = {}
         /\ bulkOp' =
              After(IF answer = "data"
                      THEN [bulkOp EXCEPT !.updatedCount = @ + Cardinality(batch),
                                          !.updated = @ \cup batch,
                                          !.rejected = @ \cup rejected,
                                          !.documents = @ + 1, !.i = @ + size]
                      ELSE [bulkOp EXCEPT !.failedCount = @ + Cardinality(batch),
                                          !.documents = @ + 1, !.i = @ + size])
  /\ UNCHANGED outsideBulk

SpecBulk ==
  StoreAlone /\ [][BulkCall \/ BulkPolled \/ BulkDownloaded \/ BulkParseLine
                     \/ BulkBatchReply]_vars

----------------------------------------------------------------------------
(* The streamed bulk endpoints of the ProductController: bulkUpdateSalesChannelsByIds
   and bulkUpdateGoogleAttributes, the same loop over one ProductService call each *)
BATCH_SIZE == 250
StreamSizes == {0, 1, BATCH_SIZE, BATCH_SIZE + 1, 2 * BATCH_SIZE + 1}

(* a catch that forgets the batch in processed *)
BatchCountsLossy(st, size, updated, raised) ==
  IF raised
    THEN [st EXCEPT !.totalFailures = @ + size]
    ELSE [st EXCEPT !.processed = @ + size, !.totalSuccesses = @ + updated,
                    !.totalFailures = @ + (size - updated)]

(* lines 112-114, and 154 and 173 in the catch.  The ProductService returns every
   entity of the batch in updatedProducts or in failedProducts, once per occurrence *)
BatchCounts(st, size, updated, raised) ==
  IF raised
    THEN [st EXCEPT !.processed = @ + size, !.totalFailures = @ + size]
    ELSE [st EXCEPT !.processed = @ + size, !.totalSuccesses = @ + updated,
                    !.totalFailures = @ + (size - updated)]

(* the handler is called with productIds.length = total (lines 65-110): the first
   batch is announced and handed to the ProductService, or the stream is completed
   at once when there is no product *)
StreamRequest ==
  /\ stream.pc = "idle"
  /\ \E total \in StreamSizes :
       stream' =
         IF total = 0
           THEN [stream EXCEPT !.pc = "done",
                   !.events = <<[status |-> "completed", processed |-> 0,
                                 successes |-> 0, failures |-> 0]>>]
           ELSE [stream EXCEPT !.pc = "calling", !.total = total, !.started = 1,
                   !.events = <<[status |-> "batch_started", batchNumber |-> 1,
                                 totalBatches |-> CeilDiv(total, BATCH_SIZE)]>>]
  /\ UNCHANGED outsideStream

(* the ProductService call of the batch returns or raises (lines 107-174); after
   the last batch the final event is sent (lines 177-199) *)
StreamBatchDone ==
  /\ stream.pc = "calling"
  /\ LET size == Min(BATCH_SIZE, stream.total - stream.i)
         batchNumber == (stream.i \div BATCH_SIZE) + 1
         totalBatches == CeilDiv(stream.total, BATCH_SIZE) IN
       \E updated \in {0, 1, size - 1, size}, raised \in BOOLEAN :
         /\ raised => updated = 0
         /\ LET c == BatchCounts(stream, size, updated, raised)
                event ==
                  IF raised
                    THEN [status |-> "batch_error", batchNumber |-> batchNumber,
                          totalBatches |-> totalBatches]
                    ELSE [status |-> "batch_completed", batchNumber |-> batchNumber,
                          totalBatches |-> totalBatches, processed |-> c.processed,
                          successes |-> c.totalSuccesses, failures |-> c.totalFailures]
                final == [status |-> "completed", processed |-> c.processed,
                          successes |-> c.totalSuccesses, failures |-> c.totalFailures] IN
              stream' =
                IF stream.i + BATCH_SIZE < stream.total
                  THEN [c EXCEPT !.pc = "delay", !.events = Append(@, event)]
                  ELSE [c EXCEPT !.pc = "done", !.events = @ \o <<event, final>>]
  /\ UNCHANGED outsideStream

(* the 500 ms between batches are over (line 178): the next turn of the loop
   (lines 91-110) *)
StreamDelayDone ==
  /\ stream.pc = "delay"
  /\ stream' = [stream EXCEPT
       !.pc = "calling", !.i = @ + BATCH_SIZE, !.started = @ + 1,
       !.events = Append(@, [status |-> "batch_started",
                             batchNumber |-> ((stream.i + BATCH_SIZE) \div BATCH_SIZE) + 1,
                             totalBatches |-> CeilDiv(stream.total, BATCH_SIZE)])]
  /\ UNCHANGED outsideStream

(* the timeout set by req.setTimeout(900000) (line 66) fires while the handler
   runs; the handler holds no reference to it *)
DeadlineFires ==
  /\ stream.pc \in {"calling", "delay"}
  /\ stream.deadline = -1
  /\ stream' = [stream EXCEPT !.deadline = stream.started]
  /\ UNCHANGED outsideStream

SpecStream ==
  StoreAlone /\ [][StreamRequest \/ StreamBatchDone \/ StreamDelayDone
                     \/ DeadlineFires]_vars

----------------------------------------------------------------------------
(* A run of ProductService.bulkUpdateSalesChannels and its re-invocation, seen from
   the remote's publication state *)

(* the publication map, in the order the remote listed the publications: six, so
   that updateProductSalesChannels sends two documents *)
ListedChannels ==
  <<"Online Store", "Point of Sale", "Google & YouTube", "TikTok", "Shop", "Inbox">>
Listed == {ListedChannels[n] : n \in DOMAIN ListedChannels}

(* a publish that flips the publication *)
MutateToggling(published, channels, salesChannels) ==
  (published \ channels) \cup ((channels \cap salesChannels) \ published)

(* the remote executes the mutations built at lines 356-398 for the publications
   in channels: publishablePublish for a name asked for, publishableUnpublish for
   any other *)
Mutate(published, channels, salesChannels) ==
  (published \ (channels \ salesChannels)) \cup (channels \cap salesChannels)

(* the ways one updateProductSalesChannels call can end, as the set of publications
   whose mutation the remote executed: all of them when it returns; when it raises,
   the documents before the failing one, and of the failing document nothing (the
   request failed or was refused), everything but one alias (answered with
   userErrors) or everything (the answer was lost) *)
UpdateEndings ==
  LET doc(d) == {ListedChannels[n] : n \in (DOMAIN ListedChannels) \cap
                   (((d - 1) * mutationBatchSize + 1)..(d * mutationBatchSize))}
      before(d) == UNION {doc(e) : e \in 1..(d - 1)}
      docs == 1..CeilDiv(Len(ListedChannels), mutationBatchSize) IN
    {[returned |-> TRUE, executed |-> Listed]} \cup
    UNION {{[returned |-> FALSE, executed |-> before(d) \cup part] :
              part \in {x \in SUBSET doc(d) : Cardinality(doc(d) \ x) <= 1} \cup {{}}} :
           d \in docs}

ResumeProducts == 1..MaxProducts   \* request.productIds

(* the first invocation: request.productIds are all the products *)
ResumeInvoke ==
  /\ resume.pc = "idle"
  /\ \E salesChannels \in {{}, {"Online Store", "Inbox"}, {"TikTok", UnknownChannel},
                           Listed},
        initial \in [ResumeProducts -> {{}, {"Online Store", "Shop"}, Listed}] :
       resume' = [resume EXCEPT !.pc = "first", !.salesChannels = salesChannels,
                                !.initial = initial, !.remote = initial,
                                !.todo = ResumeProducts]
  /\ UNCHANGED outsideResume

(* one entity is settled (productService.ts lines 62-110): its
   updateProductSalesChannels call returned or raised.  In the re-invocation the
   remote succeeds. *)
ResumeSettle ==
  /\ resume.pc \in {"first", "second"}
  /\ \E id \in resume.todo, ending \in UpdateEndings :
       /\ resume.pc = "second" => ending.returned
       /\ resume' = [resume EXCEPT
            !.remote[id] = Mutate(@, ending.executed, resume.salesChannels),
            !.todo = @ \ {id},
            !.updatedProducts = IF ending.returned THEN @ \cup {id} ELSE @,
            !.failedProducts = IF ending.returned THEN @ ELSE @ \cup {id}]
  /\ UNCHANGED outsideResume

(* the invocation returns (lines 192-198); after the first one the caller invokes
   again with the same salesChannels, on failedProducts or on every product *)
ResumeReturn ==
  /\ resume.pc \in {"first", "second"}
  /\ resume.todo = {}
  /\ \/ /\ resume.pc = "first"
        /\ \E again \in {resume.failedProducts, ResumeProducts} :
             resume' = [resume EXCEPT !.pc = "second", !.afterFirst = resume.remote,
                                      !.todo = again, !.failedProducts = {}]
     \/ /\ resume.pc = "second"
        /\ resume' = [resume EXCEPT !.pc = "done"]
  /\ UNCHANGED outsideResume

SpecResume == StoreAlone /\ [][ResumeInvoke \/ ResumeSettle \/ ResumeReturn]_vars

----------------------------------------------------------------------------
(* StoreService.getProduct and ProductService.autoUpdateGoogleAttributes *)

(* a lookup for which a missing entity is a failure like any other *)
GetProductRaisingOnMissing(e) ==
  IF e = NoError THEN [value |-> "product", thrown |-> "none"]
  ELSE IF e.axios THEN [value |-> "none", thrown |-> "Failed to fetch product"]
  ELSE [value |-> "none", thrown |-> "Failed to fetch product from store"]

(* getProduct, lines 287-301: the remote answered with the product (NoError), or
   axios.get raised e *)
GetProduct(e) ==
  IF e = NoError THEN [value |-> "product", thrown |-> "none"]
  ELSE IF e.axios /\ e.status = 404 THEN [value |-> "null", thrown |-> "none"]
  ELSE IF e.axios THEN [value |-> "none", thrown |-> "Failed to fetch product"]
  ELSE [value |-> "none", thrown |-> "Failed to fetch product from store"]

(* autoUpdateGoogleAttributes(productIds), productService.ts lines 420-426 *)
LookupCall ==
  /\ lookup.pc = "idle"
  /\ \E n \in 1..MaxShort : lookup' = [lookup EXCEPT !.pc = "running", !.productIds = n]
  /\ UNCHANGED outsideLookup

(* one turn of the loop (lines 429-565): getProduct, then the category check and
   updateGoogleAttributes for a product that exists; after the last entity the
   summary is returned (lines 568-586).  An error that is not an axios error stands
   for the 'Invalid shop URL format' of getProduct, line 280. *)
LookupSettle ==
  /\ lookup.pc = "running"
  /\ \E e \in Errors \cup {NoError, [NoError EXCEPT !.code = "Error"]},
        rest \in {"none", "Could not determine product category",
                  "Failed to update Google attributes"} :
       LET got == GetProduct(e)
           reason == IF got.thrown # "none" THEN got.thrown
                     ELSE IF got.value = "null" THEN "Product not found"
                     ELSE rest IN
         /\ got.value # "product" => rest = "none"
         /\ lookup' = [lookup EXCEPT
              !.answers = Append(@, e), !.products = Append(@, got),
              !.reasons = Append(@, reason),
              !.pc = IF Len(lookup.answers) + 1 = lookup.productIds
                       THEN "done" ELSE "running"]
  /\ UNCHANGED outsideLookup

SpecLookup == StoreAlone /\ [][LookupCall \/ LookupSettle]_vars

----------------------------------------------------------------------------
(* StoreService.getProductsMissingChannels and its fallback
   getProductsMissingChannelsWithSmallerBatches *)
pageSize == 50

(* lines 962-975: the products of the catalogue that lack the Google & YouTube or
   the TikTok channel *)
MissingChannels(catalogue) ==
  {k \in 1..catalogue.size :
     \/ catalogue.lacking = "all"
     \/ catalogue.lacking = "odd" /\ k % 2 = 1}

(* getProductsMissingChannels(), lines 894-906 *)
ScanCall ==
  /\ scan.pc = "idle"
  /\ \E size \in {0, 1, pageSize, pageSize + 1, 2 * pageSize + 1, 3 * pageSize + 1},
        lacking \in {"all", "odd", "none"} :
       scan' = [scan EXCEPT !.pc = "main",
                            !.catalogue = [size |-> size, lacking |-> lacking]]
  /\ UNCHANGED outsideScan

(* one turn of the page loop, of the scan (lines 909-1003) or of the fallback
   (lines 1025-1097): the page is answered and its products are examined, or
   makeRequest raises.  A failure of the scan starts the fallback with half the page
   size, the cursor and a list of its own (lines 995-998, 1021-1023), and what the
   fallback returns is returned; a failure of the fallback is raised (1093-1096,
   1007-1010).  An answer of the scan with an errors payload is only logged
   (lines 947-949): hasNextPage and the cursor stay as they are.  errorsAt is the
   cursor of the last page answered so, again whether a page has been requested
   anew after such an answer. *)
ScanPage ==
  /\ scan.pc \in {"main", "fallback"}
  /\ LET size == IF scan.pc = "main" THEN pageSize ELSE pageSize \div 2
         last == Min(scan.cursor + size, scan.catalogue.size)
         found == {k \in MissingChannels(scan.catalogue) : scan.cursor < k /\ k <= last}
         list == scan.productsMissingChannels \cup found
         st == [scan EXCEPT !.again = @ \/ scan.errorsAt = scan.cursor] IN
       \/ scan' = [st EXCEPT
             !.cursor = last, !.productsMissingChannels = list,
             !.collected = @ \cup found,
             !.pc = IF last < scan.catalogue.size THEN @ ELSE "done",
             !.returned = ~(last < scan.catalogue.size),
             !.result = IF last < scan.catalogue.size THEN @ ELSE list]
       \/ /\ scan.pc = "main"
          /\ scan' = [st EXCEPT !.pc = "fallback", !.productsMissingChannels = {}]
       \/ /\ scan.pc = "fallback"
          /\ scan' = [st EXCEPT !.pc = "done", !.raised = TRUE]
       \/ /\ scan.pc = "main"
          /\ scan' = [st EXCEPT !.errorsAt = scan.cursor]
  /\ UNCHANGED outsideScan

SpecScan == StoreAlone /\ [][ScanCall \/ ScanPage]_vars

----------------------------------------------------------------------------
(* StoreService.updateProductSalesChannels against the publications of the remote.
   The remote has the publications 1..remote, each with its own name; before (after)
   is the set of publications the product is published to when the call starts (as
   the answered mutations have left it); groups are the sizes of the documents sent. *)
publicationsFirst == 10
PublicationCountsKnown == {0, 1, mutationBatchSize, mutationBatchSize + 1,
                           publicationsFirst, publicationsFirst + 1}

(* getPublicationIds, lines 310-336: the publications the map holds *)
PublicationMapOf(remote) == 1..Min(remote, publicationsFirst)

(* lines 349-351 *)
GqlProductId(productId) ==
  IF productId.form = "gid" THEN productId ELSE [productId EXCEPT !.form = "gid"]

(* lines 354-398: one mutation per entry of the map, in the order of the map *)
Mutations(productId, salesChannels, publicationMap) ==
  [k \in publicationMap |->
     [op |-> IF k \in salesChannels THEN "publishablePublish" ELSE "publishableUnpublish",
      id |-> GqlProductId(productId), publicationId |-> k]]

(* updateProductSalesChannels(productId, salesChannels) is called: lines 343-398 *)
PublishCall ==
  /\ publish.pc = "idle"
  /\ \E remote \in PublicationCountsKnown, form \in {"bare", "gid"},
        chosen \in {"none", "all", "odd", "first"}, held \in {"none", "all", "odd"},
        setup \in {"data", "errors"} :
       LET pick(kind) == {k \in 1..remote : (kind = "all") \/ (kind = "odd" /\ k % 2 = 1)
                                              \/ (kind = "first" /\ k = 1)}
           productId == [form |-> form, number |-> 1]
           st == [NoPublish EXCEPT !.remote = remote, !.productId = productId,
                                   !.salesChannels = pick(chosen),
                                   !.before = pick(held), !.after = pick(held)]
           mutations == Mutations(productId, pick(chosen), PublicationMapOf(remote)) IN
         publish' =
           IF setup = "errors" THEN [st EXCEPT !.pc = "raised"]
           ELSE IF Len(mutations) = 0 THEN [st EXCEPT !.pc = "returned"]
           ELSE [st EXCEPT !.pc = "sent", !.mutations = mutations]
  /\ UNCHANGED outsidePublish

(* lines 400-435: the remote answers the document of the mutations at i *)
PublishReply ==
  /\ publish.pc = "sent"
  /\ \E answer \in {"data", "errors", "userErrors"} :
       LET batch == Slice(publish.mutations, publish.i, publish.i + mutationBatchSize)
           on == {batch[k].publicationId : k \in {n \in DOMAIN batch :
                                                   batch[n].op = "publishablePublish"}}
           off == {batch[k].publicationId : k \in {n \in DOMAIN batch :
                                                    batch[n].op = "publishableUnpublish"}}
           st == [publish EXCEPT !.groups = Append(@, Len(batch))] IN
         publish' =
           IF answer = "data"
             THEN [st EXCEPT !.after = (@ \ off) \cup on,
                             !.i = @ + mutationBatchSize,
                             !.pc = IF publish.i + mutationBatchSize < Len(publish.mutations)
                                      THEN "sent" ELSE "returned"]
             ELSE [st EXCEPT !.pc = "raised"]
  /\ UNCHANGED outsidePublish

SpecPublish == StoreAlone /\ [][PublishCall \/ PublishReply]_vars

----------------------------------------------------------------------------
(* SchedulerService: startNewProductsScheduler, stopScheduler and processNewProducts.
   runs holds one record per run that got past the isRunning test (pc: where it
   stands; products: the products found so far; pages: the later pages asked for;
   exit: the path it ended on, its locals being gone; brokeOff: a later page answered with errors); calls
   counts the calls of processNewProducts, skipped those that returned at once, and
   remoteCalls the requests the runs have sent. *)
MaxCalls == 4
MaxPages == 2

(* a processNewProducts that does not test isRunning *)
ProcessNewProductsUnguarded(st) ==
  [st EXCEPT !.isRunning = TRUE,
             !.calls = @ + 1,
             !.runs = Append(@, [pc |-> "firstPage", products |-> 0, pages |-> 0,
                                 exit |-> "none", brokeOff |-> FALSE]),
             !.remoteCalls = @ + 1]

(* lines 57-86: processNewProducts up to its first await *)
ProcessNewProducts(st) ==
  IF st.isRunning THEN [st EXCEPT !.calls = @ + 1, !.skipped = @ + 1]
  ELSE [st EXCEPT !.isRunning = TRUE,
                  !.calls = @ + 1,
                  !.runs = Append(@, [pc |-> "firstPage", products |-> 0, pages |-> 0,
                                      exit |-> "none", brokeOff |-> FALSE]),
                  !.remoteCalls = @ + 1]

(* a run whose return statements leave without the finally block *)
FinallySkippedOnReturn(st, r, path) ==
  [st EXCEPT !.isRunning = IF path \in {"gqlErrors", "noProducts"} THEN @ ELSE FALSE,
             !.runs[r] = [@ EXCEPT !.pc = "ended", !.exit = path, !.products = 0,
                                   !.pages = 0]]

(* lines 186-190: the run r leaves the try statement on the given path *)
Finally(st, r, path) ==
  [st EXCEPT !.isRunning = FALSE,
             !.runs[r] = [@ EXCEPT !.pc = "ended", !.exit = path, !.products = 0,
                                   !.pages = 0]]

(* lines 141-167: after the page loop *)
AfterPages(st, r) ==
  IF st.runs[r].products = 0 THEN Finally(st, r, "noProducts")
  ELSE [st EXCEPT !.runs[r].pc = "bulkUpdate", !.remoteCalls = @ + 1]

(* lines 21-41 *)
StartNewProductsScheduler ==
  /\ ~scheduler.cronJob
  /\ scheduler.calls < MaxCalls
  /\ scheduler' = [ProcessNewProducts(scheduler) EXCEPT !.cronJob = TRUE]
  /\ UNCHANGED outsideScheduler

(* lines 46-52 *)
StopScheduler ==
  /\ scheduler.cronJob
  /\ scheduler' = [scheduler EXCEPT !.cronJob = FALSE]
  /\ UNCHANGED outsideScheduler

(* lines 36-40: the cron job fires *)
CronTick ==
  /\ scheduler.cronJob
  /\ scheduler.calls < MaxCalls
  /\ scheduler' = ProcessNewProducts(scheduler)
  /\ UNCHANGED outsideScheduler

(* lines 82-95: the request for the first page ends *)
FirstPage(r) ==
  /\ r \in DOMAIN scheduler.runs
  /\ scheduler.runs[r].pc = "firstPage"
  /\ \E answer \in {"errors", "thrown", "data"}, found \in 0..1, hasNextPage \in BOOLEAN :
       scheduler' =
         CASE answer = "errors" -> Finally(scheduler, r, "gqlErrors")
           [] answer = "thrown" -> Finally(scheduler, r, "exception")
           [] OTHER ->
                LET st == [scheduler EXCEPT !.runs[r].products = found] IN
                  IF hasNextPage
                    THEN [st EXCEPT !.runs[r].pc = "nextPage", !.runs[r].pages = 1,
                                    !.remoteCalls = @ + 1]
                    ELSE AfterPages(st, r)
  /\ UNCHANGED outsideScheduler

(* lines 98-139: the request for a later page ends *)
NextPage(r) ==
  /\ r \in DOMAIN scheduler.runs
  /\ scheduler.runs[r].pc = "nextPage"
  /\ \E answer \in {"errors", "thrown", "data"}, found \in 0..1,
        hasNextPage \in IF scheduler.runs[r].pages < MaxPages THEN BOOLEAN ELSE {FALSE} :
       scheduler' =
         CASE answer = "errors" ->
                AfterPages([scheduler EXCEPT !.runs[r].brokeOff = TRUE], r)
           [] answer = "thrown" -> Finally(scheduler, r, "exception")
           [] OTHER ->
                LET st == [scheduler EXCEPT !.runs[r].products = @ + found] IN
                  IF hasNextPage THEN [st EXCEPT !.runs[r].pc = "pageDelay"]
                  ELSE AfterPages(st, r)
  /\ UNCHANGED outsideScheduler

(* lines 136-138 and 101-124: the delay between two pages is over *)
PageDelayDone(r) ==
  /\ r \in DOMAIN scheduler.runs
  /\ scheduler.runs[r].pc = "pageDelay"
  /\ scheduler' = [scheduler EXCEPT !.runs[r].pc = "nextPage", !.runs[r].pages = @ + 1,
                                    !.remoteCalls = @ + 1]
  /\ UNCHANGED outsideScheduler

(* lines 167-184: bulkUpdateSalesChannels returns or throws *)
BulkUpdateDone(r) ==
  /\ r \in DOMAIN scheduler.runs
  /\ scheduler.runs[r].pc = "bulkUpdate"
  /\ \E path \in {"completed", "exception"} : scheduler' = Finally(scheduler, r, path)
  /\ UNCHANGED outsideScheduler

SpecScheduler ==
  StoreAlone /\ [][StartNewProductsScheduler \/ StopScheduler \/ CronTick
                     \/ (\E r \in 1..MaxCalls : FirstPage(r))
                     \/ (\E r \in 1..MaxCalls : NextPage(r))
                     \/ (\E r \in 1..MaxCalls : PageDelayDone(r))
                     \/ (\E r \in 1..MaxCalls : BulkUpdateDone(r))]_vars

----------------------------------------------------------------------------
(* One makeRequest call, followed for as long as it runs.  remote: "throttles" answers
   every request with a throttling error, for ever; "answers" throttles at most
   throttles more times and otherwise answers as it likes.  waitTime is the last
   throttle wait, in ticks. *)
MaxThrottles == 2
RetriesGiven == {0, 1, updateRetries}

(* line 83, after a continue: the next attempt, or the throw of line 168 *)
RetryLoop(st) ==
  IF LoopCondition(st.retryCount, st.retries) THEN [st EXCEPT !.pc = "consumeToken"]
  ELSE [st EXCEPT !.pc = "raised"]

(* makeRequest(url, data, retries) is called: lines 79-86 *)
RetryCall ==
  /\ retry.pc \in {"idle", "returned", "raised"}
  /\ \E retries \in RetriesGiven, remote \in {"answers", "throttles"},
        throttles \in 0..MaxThrottles :
       /\ remote = "throttles" => throttles = 0
       /\ retry' = RetryLoop([NoRetry EXCEPT !.remote = remote, !.throttles = throttles,
                                             !.retries = retries])
  /\ UNCHANGED outsideRetry

(* lines 86-91: the wait of consumeToken is over and the request is posted *)
RetryPost ==
  /\ retry.pc = "consumeToken"
  /\ retry' = [retry EXCEPT !.pc = "post"]
  /\ UNCHANGED outsideRetry

(* lines 93-117: the remote answers with a response *)
RetrySuccess ==
  /\ retry.pc = "post"
  /\ retry.remote = "answers"
  /\ \E h \in Headers :
       retry' = [retry EXCEPT !.pc = IF Headroom(InitialBucket, h).pause > 0
                                      THEN "headroom" ELSE "returned"]
  /\ UNCHANGED outsideRetry

(* lines 104 and 109: the pause after a response with little headroom is over *)
RetryHeadroomDone ==
  /\ retry.pc = "headroom"
  /\ retry' = [retry EXCEPT !.pc = "returned"]
  /\ UNCHANGED outsideRetry

(* lines 118-165: the request fails *)
RetryFailure ==
  /\ retry.pc = "post"
  /\ \E e \in Errors :
       /\ retry.remote = "throttles" => isThrottled(e)
       /\ (retry.remote = "answers" /\ isThrottled(e)) => retry.throttles > 0
       /\ LET st == [retry EXCEPT !.lastError = e, !.retryCount = @ + 1] IN
            retry' =
              IF isThrottled(e)
                THEN [st EXCEPT !.pc = "throttleWait",
                                !.waitTime = ThrottleWaitTicks(st.retryCount),
                                !.throttles = IF retry.remote = "answers" THEN @ - 1 ELSE @]
              ELSE IF isTransient(e) THEN [st EXCEPT !.pc = "transientWait"]
              ELSE [st EXCEPT !.pc = "raised"]
  /\ UNCHANGED outsideRetry

(* lines 142-146: the throttle wait is over *)
RetryThrottleWaitDone ==
  /\ retry.pc = "throttleWait"
  /\ retry' = RetryLoop([retry EXCEPT !.retryCount = AfterThrottle(@)])
  /\ UNCHANGED outsideRetry

(* lines 159-160: the delay after a transient failure is over *)
RetryTransientWaitDone ==
  /\ retry.pc = "transientWait"
  /\ retry' = RetryLoop(retry)
  /\ UNCHANGED outsideRetry

(* the steps of a call that is running: timers fire, and axios ends every post with
   a response or an error, at the latest when its timeout is over *)
RetrySteps ==
  \/ RetryPost
  \/ RetrySuccess
  \/ RetryHeadroomDone
  \/ RetryFailure
  \/ RetryThrottleWaitDone
  \/ RetryTransientWaitDone

SpecRetry == StoreAlone /\ [][RetryCall \/ RetrySteps]_vars

SpecRetryLive == SpecRetry /\ WF_vars(RetrySteps)

----------------------------------------------------------------------------
(* Actions of the orchestrator *)

(* bulkUpdateSalesChannels(request) / bulkUpdateGoogleAttributes(request) is called *)
Invoke ==
  /\ opc = "start"
  /\ Install(ChunkHead(Cur))
  /\ UNCHANGED outcomeAt

(* line 50: the penalty delay is over *)
PenaltyDone ==
  /\ opc = "penalty"
  /\ Install(StartBatch(Cur))
  /\ UNCHANGED outcomeAt

OutcomesIn(mode) ==
  CASE mode = "healthy" -> {"updated"}
    [] mode = "throttling" -> {"gqlThrottled"}
    [] mode = "flaky" -> {"updated", "gqlError"}
    [] OTHER -> Outcomes

(* the entity updates that have failed so far in this run *)
FailedSoFar ==
  Len(failedProducts)
    + Cardinality({k \in DOMAIN results : results[k].state = "settled" /\ ~results[k].success})

(* the update of one entity of the sub-group ends: lines 70-83 *)
Settle(k) ==
  /\ opc = "await"
  /\ k \in DOMAIN results
  /\ results[k].state = "pending"
  /\ \E outcome \in OutcomesIn(remoteMode) :
       /\ (remoteMode = "flaky" /\ outcome # "updated") => FailedSoFar < MaxFlaky
       /\ outcome = "setupFailed" => operation = "salesChannels"
       /\ LET r == EntityResult(results[k].id, operation, outcome) IN
            /\ Install([Cur EXCEPT !.results[k] = r,
                                   !.opc = IF r.rethrown THEN "raised" ELSE @,
                                   !.chunks.overtaken =
                                      @ \/ \E m \in 1..(k - 1) :
                                              results[m].state = "pending"])
            /\ outcomeAt' = [p \in DOMAIN outcomeAt \cup {i + j + k} |->
                               IF p = i + j + k THEN outcome ELSE outcomeAt[p]]

(* line 86: Promise.all resolves *)
SubgroupDone ==
  /\ opc = "await"
  /\ \A k \in DOMAIN results : results[k].state = "settled"
  /\ Install(AfterSubgroup(Cur))
  /\ UNCHANGED outcomeAt

(* line 133: the delay between two sub-groups is over *)
SubDelayDone ==
  /\ opc = "subDelay"
  /\ Install(DispatchSubgroup([Cur EXCEPT !.j = @ + maxConcurrent]))
  /\ UNCHANGED outcomeAt

(* line 169: the delay between two chunks is over *)
ChunkDelayDone ==
  /\ opc = "chunkDelay"
  /\ Install(ChunkHead([Cur EXCEPT !.i = @ + batchSize]))
  /\ UNCHANGED outcomeAt

Inputs ==
  [mode : {"any"}, ids : UNION {[1..n -> Ids] : n \in 0..MaxShort}]
    \cup [mode : {"healthy", "throttling", "flaky"}, ids : {[k \in 1..LongRun |-> k]}]

OrchInit ==
  /\ operation \in Operations
  /\ \E input \in Inputs : remoteMode = input.mode /\ productIds = input.ids
  /\ opc = "start"
  /\ i = 0 /\ j = 0
  /\ maxConcurrent = initialConcurrency
  /\ consecutiveSuccesses = 0 /\ consecutiveFailures = 0
  /\ lastBatchSuccessRate = RateOf(1, 0)
  /\ batchSuccesses = 0 /\ batchFailures = 0
  /\ results = <<>>
  /\ updatedProducts = <<>> /\ failedProducts = <<>>
  /\ productErrors = <<>>
  /\ response = NoResponse
  /\ dispatched = 0
  /\ outcomeAt = <<>>
  /\ chunks = NoChunks

OrchNext ==
  \/ Invoke
  \/ PenaltyDone
  \/ \E k \in 1..concurrencyCap : Settle(k)
  \/ SubgroupDone
  \/ SubDelayDone
  \/ ChunkDelayDone

Init == OrchInit /\ StoreInit /\ ProcInit /\ ChanInit /\ ExtInit

Next == OrchNext

Spec == Init /\ [][Next]_vars

----------------------------------------------------------------------------
(* Properties of the StoreService *)

Attempting == {"ctPace", "ctWait", "post"}
Quiescent == \A c \in Callers : call[c].pc \in {"idle", "done"}

(* C2: after every step of consumeToken and every bucket adjustment of makeRequest
   (headroom feedback, throttle reset), 0 <= tokens <= maxTokens. *)
C2_TokenBucketBound ==
  /\ 0 <= tokenBucket.tokens
  /\ tokenBucket.tokens <= tokenBucket.maxTokens

(* the bucket was emptied by a throttle reset, a second caller found it short and
   waited, and the bucket has been refilled since *)
C2_Witness ==
  /\ tokenBucket.refillRate = throttledRate
  /\ tokenBucket.tokens > 0
  /\ \E c \in Callers : call[c].pc = "post" /\ call[c].throttledSeen > 0
  /\ \E c \in Callers : call[c].pc = "ctWait"

(* C3: throttled failures are never counted against maxRetries: the retry counter
   counts the transient (and client) failures alone, wherever the throttled ones fall;
   a call raises only on a client error or on its (maxRetries + 1)-th transient
   failure, and never with a throttled error. *)
C3_ThrottledNeverCounted ==
  \A c \in Callers :
    /\ call[c].retryCount = call[c].transientSeen + call[c].clientSeen
                            + (IF call[c].pc = "throttleWait" THEN 1 ELSE 0)
    /\ call[c].outcome = "raised" =>
         /\ Kind(call[c].thrown) # "throttled"
         /\ call[c].clientSeen = 0 => call[c].transientSeen = call[c].retries + 1

(* a call throttled twice, with a transient failure in between tolerated, returns *)
C3_Witness ==
  \E c \in Callers :
    /\ call[c].outcome = "returned"
    /\ call[c].throttledSeen = 2
    /\ call[c].transientSeen = 1

(* C4 as stated: once maxRetries transient failures have been seen, no further
   attempt is issued. *)
C4_RaisedAfterMaxRetries ==
  \A c \in Callers :
    (call[c].retries >= 1 /\ call[c].transientSeen >= call[c].retries)
      => call[c].pc \notin Attempting

(* C4 as amended: the call is attempted again after each of its first maxRetries
   transient failures; at the (maxRetries + 1)-th the last error is raised and no
   further attempt is issued. *)
C4_RaisedAfterRetriesExhausted ==
  \A c \in Callers :
    /\ call[c].transientSeen <= call[c].retries + 1
    /\ call[c].transientSeen = call[c].retries + 1 =>
         /\ call[c].pc \in {"transientWait", "done"}
         /\ call[c].pc = "done" => (call[c].outcome = "raised"
                                    /\ call[c].thrown = call[c].lastError)
    /\ (call[c].outcome = "raised" /\ Kind(call[c].thrown) = "transient") =>
         /\ call[c].transientSeen = call[c].retries + 1
         /\ call[c].attempts = call[c].transientSeen + call[c].throttledSeen

(* the second transient failure of a call with maxRetries = 1 has been raised *)
C4_Witness ==
  \E c \in Callers :
    /\ call[c].retries = 1
    /\ call[c].outcome = "raised"
    /\ call[c].transientSeen = 2
    /\ Kind(call[c].thrown) = "transient"

(* C5: a 4xx answer that is not a throttle is raised at once: it is the answer to
   the last remote call of the call, no backoff pause follows it, and no attempt. *)
C5_ClientErrorRaisedAtOnce ==
  \A c \in Callers :
    Kind(call[c].lastError) = "client" /\ call[c].lastError.axios =>
      /\ call[c].pc = "done"
      /\ call[c].outcome = "raised"
      /\ call[c].thrown = call[c].lastError
      /\ call[c].attempts = call[c].transientSeen + call[c].throttledSeen + 1
      /\ call[c].pauses = call[c].transientSeen + call[c].throttledSeen

(* a 404 raised by a call that still had retries left, after an earlier retry *)
C5_Witness ==
  \E c \in Callers :
    /\ call[c].outcome = "raised"
    /\ call[c].thrown.status = 404
    /\ call[c].retries = 1
    /\ call[c].transientSeen = 1

(* C12: within one makeRequest call, the wait computed for a throttled response is
   never shorter than the wait computed for the throttled response before it,
   whatever transient failures fall in between. *)
C12_ThrottleWaitNonDecreasing ==
  \A c \in Callers :
    /\ call[c].previousWait <= call[c].waitTime
    /\ call[c].throttledSeen >= 1 => call[c].waitTime > 0
    /\ call[c].throttledSeen >= 2 => call[c].previousWait > 0

(* a call throttled, then failed on a transient error, then throttled again: the
   second wait is longer than the first *)
C12_Witness ==
  \E c \in Callers :
    /\ call[c].pc = "throttleWait"
    /\ call[c].throttledSeen = 2
    /\ call[c].transientSeen = 1
    /\ 0 < call[c].previousWait
    /\ call[c].previousWait < call[c].waitTime

(* C13 as stated: after a successful response that carries the rate-limit header,
   below 5% of headroom the bucket is emptied and refillRate is set below the rate of
   the 5%-to-20% band; below 20% refillRate is set below the default; otherwise
   refillRate is the default the bucket was constructed with. *)
C13_HeadroomFeedback ==
  [][\A c \in Callers :
       (/\ call[c].pc = "post"
        /\ call'[c].pc \in {"headroomWait", "done"}
        /\ faults' = faults
        /\ call'[c].header # NoHeader)
       => LET h == call'[c].header
              remaining == 100 * (h.limit - h.used) IN
            IF remaining < 5 * h.limit
              THEN tokenBucket'.tokens = 0 /\ tokenBucket'.refillRate < lowRate
            ELSE IF remaining < 20 * h.limit
              THEN tokenBucket'.refillRate < InitialBucket.refillRate
            ELSE tokenBucket'.refillRate = InitialBucket.refillRate]_vars

(* C18 as stated: given an attribute set in which every value is blank,
   updateGoogleAttributes returns true for the entity without any remote call. *)
C18_BlankAttributesSkipped ==
  \A c \in Callers :
    (call[c].op = "updateGoogleAttributes" /\ call[c].attributes \in {"empty", "blank"})
      => call[c].pc = "done" /\ call[c].outcome = "updated" /\ call[c].attempts = 0

(* C18 as amended: given an attribute set in which every value is empty or absent,
   updateGoogleAttributes returns true for the entity without calling makeRequest
   and without debiting the bucket. *)
C18_EmptyAttributesSkipped ==
  \A c \in Callers :
    (call[c].op = "updateGoogleAttributes" /\ call[c].attributes = "empty")
      => /\ call[c].pc = "done" /\ call[c].outcome = "updated"
         /\ call[c].attempts = 0 /\ call[c].batchesLeft = 0
         /\ (\A d \in Callers \ {c} : call[d].pc = "idle")
              => (debits = 0 /\ remoteCalls = 0 /\ tokenBucket = InitialBucket)

(* an update with an empty attribute set has returned while another caller's
   request was debited and sent *)
C18_Witness ==
  \E c \in Callers :
    /\ call[c].op = "updateGoogleAttributes" /\ call[c].attributes = "empty"
    /\ call[c].outcome = "updated"
    /\ \E d \in Callers \ {c} : call[d].attempts >= 1
    /\ debits = remoteCalls

(* C9 as stated: a caller that resumes in consumeToken and writes the bucket finds
   it as it read it before suspending: no other caller's update is overwritten. *)
C9_NoLostBucketUpdate == ~lostUpdate

(* C10 as stated: when no call is in flight, the debits of the bucket equal the
   remote calls issued, publication-list lookups included. *)
C10_DebitsEqualRemoteCalls == Quiescent => debits = remoteCalls

----------------------------------------------------------------------------
(* Properties of the burst of consumeToken calls *)

(* C8 as stated: the consumeToken(1) calls returned by time T never exceed
   initial tokens + refillRate * T. *)
C8_ServedWithinBudget ==
  served * TokenUnit <= InitialBucket.tokens + InitialBucket.refillRate * clock

----------------------------------------------------------------------------
(* Properties of the orchestrator *)

Range(seq) == {seq[k] : k \in 1..Len(seq)}

(* C1 as stated: in the response, updatedProducts and failedProducts together hold
   exactly the input IDs, and no ID is in both. *)
C1_Partition ==
  response.returned =>
    /\ Range(response.updatedProducts) \cup Range(response.failedProducts)
         = Range(productIds)
    /\ Range(response.updatedProducts) \cap Range(response.failedProducts) = {}

(* C6: whatever way an entity fails, the run does not raise; when it returns, every
   entity of the input has been dispatched and every failed one is in failedProducts. *)
C6_FailureNeverAborts ==
  /\ opc # "raised"
  /\ response.returned =>
       /\ dispatched = Len(productIds)
       /\ DOMAIN outcomeAt = 1..Len(productIds)
       /\ \A p \in 1..Len(productIds) :
            outcomeAt[p] # "updated" => productIds[p] \in Range(response.failedProducts)
       /\ Len(response.failedProducts)
            = Cardinality({p \in 1..Len(productIds) : outcomeAt[p] # "updated"})

(* the first entity failed on a client error, the second after its retries were
   exhausted, and the last one was still updated *)
C6_Witness ==
  /\ response.returned
  /\ Len(productIds) = MaxShort
  /\ outcomeAt[1] = "clientError"
  /\ outcomeAt[2] = "exhausted"
  /\ outcomeAt[Len(productIds)] = "updated"

(* C7: maxConcurrent starts at 2 and stays within [1, 3]. *)
C7_ConcurrencyBounds ==
  /\ 1 <= maxConcurrent
  /\ maxConcurrent <= concurrencyCap
  /\ i = 0 => maxConcurrent = initialConcurrency

(* the cap has been reached and a later chunk head found three more full chunks *)
C7_Witness ==
  /\ maxConcurrent = concurrencyCap
  /\ consecutiveSuccesses >= 3
  /\ opc = "await"

InChunk == opc \in {"penalty", "await", "subDelay"}

(* C14 as stated: the head of a chunk decreases maxConcurrent (by 1, not below 1)
   exactly when the two or more chunks just before it each had a success rate below
   0.5; nothing else decreases it. *)
C14_DecreaseAfterTwoLowChunks ==
  InChunk =>
    /\ chunks.adapted = "decreased" <=> chunks.low >= 2
    /\ chunks.adapted = "decreased" => maxConcurrent = Max(1, chunks.before - 1)
    /\ chunks.adapted # "decreased" => maxConcurrent >= chunks.before

(* C15 as stated: the head of a chunk increases maxConcurrent (by 1) only when it is
   below 3 and the three or more chunks just before it each had a success rate above
   0.9. *)
C15_IncreaseAfterThreeHighChunks ==
  (InChunk /\ chunks.adapted = "increased") =>
    /\ chunks.before < concurrencyCap
    /\ maxConcurrent = chunks.before + 1
    /\ chunks.high >= 3

(* C16: dispatch is sequential.  The entities of a chunk are dispatched only once
   every chunk before it has been accounted, and the entities of a sub-group only
   once every entity dispatched before them has completed and been counted. *)
C16_SequentialDispatch ==
  /\ dispatched <= batchSize * (chunks.accounted + 1)
  /\ InChunk => i = batchSize * chunks.accounted
  /\ opc = "chunkDelay" => i + batchSize = batchSize * chunks.accounted
  /\ Len(updatedProducts) + Len(failedProducts)
       = (IF opc = "await" THEN dispatched - Len(results) ELSE dispatched)
  /\ opc = "await" =>
       /\ dispatched = i + j + Len(results)
       /\ \A p \in 1..(i + j) : p \in DOMAIN outcomeAt
       /\ \A p \in DOMAIN outcomeAt : p <= dispatched

(* the second sub-group of a later chunk is in flight, one of its entities done *)
C16_Witness ==
  /\ opc = "await"
  /\ chunks.accounted >= 1
  /\ j > 0
  /\ \E k \in DOMAIN results : results[k].state = "pending"
  /\ \E k \in DOMAIN results : results[k].state = "settled"

RECURSIVE SumOver(_, _)
SumOver(f, S) ==
  IF S = {} THEN 0
  ELSE LET m == CHOOSE x \in S : TRUE IN f[m] + SumOver(f, S \ {m})

(* C17: in every returned result, success is true exactly when failedProducts is
   empty; when it is not, the breakdown of the message has one entry per distinct
   recorded error message and its counts sum to the length of failedProducts. *)
C17_ResultSummary ==
  response.returned =>
    /\ response.success <=> response.failedProducts = <<>>
    /\ DOMAIN response.errorMap = {productErrors[id] : id \in Range(response.failedProducts)}
    /\ \A m \in DOMAIN response.errorMap : response.errorMap[m] >= 1
    /\ SumOver(response.errorMap, DOMAIN response.errorMap) = Len(response.failedProducts)

(* three entities failed, two of them with the same message *)
C17_Witness ==
  /\ response.returned
  /\ ~response.success
  /\ Len(response.failedProducts) = 3
  /\ Cardinality(DOMAIN response.errorMap) = 2

(* C20 as stated: once the publication mapping could not be fetched for an entity,
   the run raises instead of returning, and no entity of a later sub-group is
   dispatched. *)
C20_SetupFailureAborts ==
  \A p \in DOMAIN outcomeAt :
    outcomeAt[p] = "setupFailed" =>
      /\ ~response.returned
      /\ dispatched < p + concurrencyCap

----------------------------------------------------------------------------
(* Properties of the bulk operations *)

(* C21: a poll of a bulk operation that the remote answers with a status, whatever
   the status, returns that status without raising; the HTTP handler built on it
   answers an operation that is not completed with its current status, and does not
   raise either. *)
C21_PollNeverAnError ==
  (bulkOp.reported # NoBulkOp.reported /\ ~bulkOp.remote.errors) =>
    /\ bulkOp.reported.thrown = "none"
    /\ bulkOp.reported.status = bulkOp.remote.status
    /\ bulkOp.caller = "checkBulkOperationStatus" =>
         bulkOp.error = "none" /\ bulkOp.result = "returned"
    /\ bulkOp.caller = "processBulkOperationSalesChannels" =>
         /\ bulkOp.error = "none"
         /\ bulkOp.http = 400
         /\ bulkOp.operationStatus.status = bulkOp.remote.status

(* the HTTP handler was asked about an operation that is still running *)
C21_Witness ==
  /\ bulkOp.caller = "processBulkOperationSalesChannels"
  /\ bulkOp.pc = "done"
  /\ bulkOp.remote.status = "RUNNING"
  /\ bulkOp.operationStatus.status = "RUNNING"

(* C22 as stated: nothing is downloaded and no publish mutation is issued unless the
   polled status is COMPLETED and a result URL is present, and
   checkBulkOperationStatus reports a result URL only for a COMPLETED operation. *)
C22_ResultOnlyWhenCompleted ==
  /\ (bulkOp.downloaded \/ bulkOp.documents > 0) =>
       bulkOp.reported.status = "COMPLETED" /\ bulkOp.reported.url # "none"
  /\ bulkOp.reported.url # "none" => bulkOp.reported.status = "COMPLETED"

(* C23: once the result is downloaded, the extracted product IDs are the IDs of the
   well-formed lines that carry an id, one entry per line and in stream order, over
   the lines read so far; and the call does not raise. *)
C23_MalformedLinesSkipped ==
  bulkOp.downloaded =>
    LET read == SubSeq(bulkOp.lines, 1, bulkOp.k - 1)
        kept == SelectSeq(read, LAMBDA l : l.json = "object" /\ l.id # <<>>) IN
      /\ bulkOp.productIds = [n \in 1..Len(kept) |-> kept[n].id[5]]
      /\ bulkOp.error = "none"
      /\ bulkOp.event # "error"

(* a stream with a malformed line in the middle was read to its end *)
C23_Witness ==
  /\ Len(bulkOp.lines) > MaxLines
  /\ \E n \in DOMAIN bulkOp.lines : bulkOp.lines[n].json = "malformed"
  /\ bulkOp.result = "returned"
  /\ bulkOp.productIds = <<1, 2, 1, 2, 1, 2>>

(* C24 as stated: a product one of whose aliased sub-mutations came back with
   userErrors is never counted as updated. *)
C24_UserErrorsNeverCounted ==
  bulkOp.updated \cap bulkOp.rejected = {}

----------------------------------------------------------------------------
(* Properties of the streamed endpoints *)

(* C25: the progress events (batch_completed or batch_error) come one per batch, in
   batch order, numbered from 1 to totalBatches; in every event that carries the
   counters, processed = successes + failures; processed never decreases; and the
   final event has processed equal to the number of input IDs. *)
C25_ProgressEvents ==
  LET progress == SelectSeq(stream.events,
                            LAMBDA e : e.status \in {"batch_completed", "batch_error"})
      counted == SelectSeq(stream.events,
                           LAMBDA e : e.status \in {"batch_completed", "completed"})
      totalBatches == CeilDiv(stream.total, BATCH_SIZE) IN
    /\ \A n \in DOMAIN progress :
         progress[n].batchNumber = n /\ progress[n].totalBatches = totalBatches
    /\ Len(progress) <= totalBatches
    /\ \A n \in DOMAIN counted :
         /\ counted[n].processed = counted[n].successes + counted[n].failures
         /\ n > 1 => counted[n - 1].processed <= counted[n].processed
    /\ stream.pc = "done" =>
         /\ Len(progress) = totalBatches
         /\ stream.events[Len(stream.events)].status = "completed"
         /\ stream.events[Len(stream.events)].processed = stream.total

(* three batches were streamed to the end, one of them through the catch *)
C25_Witness ==
  /\ stream.pc = "done"
  /\ stream.total = 2 * BATCH_SIZE + 1
  /\ \E n \in DOMAIN stream.events : stream.events[n].status = "batch_error"
  /\ \E n \in DOMAIN stream.events :
       stream.events[n].status = "batch_completed" /\ stream.events[n].successes > 0

(* C27 as stated: once the request deadline has fired, no further batch is handed to
   the ProductService. *)
C27_NoDispatchAfterDeadline ==
  stream.deadline # -1 => stream.started = stream.deadline

----------------------------------------------------------------------------
(* Properties of the re-invocation *)

(* C26: every product an invocation reported as updated has, from then on, the
   publication state a fully successful first run would have given it, also when it
   is updated again; and when the re-invocation has returned, every input product
   has that state. *)
C26_ResumeIdempotent ==
  LET target(id) == Mutate(resume.initial[id], Listed, resume.salesChannels) IN
    /\ \A id \in resume.updatedProducts : resume.remote[id] = target(id)
    /\ resume.pc = "done" =>
         /\ resume.failedProducts = {}
         /\ \A id \in ResumeProducts : resume.remote[id] = target(id)

(* the first run left a product half updated and reported it as failed; the
   re-invocation on the failed products completed it *)
C26_Witness ==
  /\ resume.pc = "done"
  /\ \E id \in ResumeProducts :
       /\ resume.afterFirst[id] # resume.initial[id]
       /\ resume.afterFirst[id] # resume.remote[id]
       /\ UnknownChannel \in resume.salesChannels
  /\ \E id \in ResumeProducts : resume.afterFirst[id] = resume.remote[id]

----------------------------------------------------------------------------
(* Properties of the single-entity lookup *)

(* C28: getProduct gives null for an entity the remote answers 404 for, and raises
   only for other failures; autoUpdateGoogleAttributes records such an entity as
   failed with the reason 'Product not found', and does not raise. *)
C28_MissingEntityIsNull ==
  /\ ~lookup.raised
  /\ \A k \in DOMAIN lookup.answers :
       LET e == lookup.answers[k] IN
         /\ (e.axios /\ e.status = 404) =>
              /\ lookup.products[k] = [value |-> "null", thrown |-> "none"]
              /\ lookup.reasons[k] = "Product not found"
         /\ lookup.products[k].thrown # "none" =>
              e # NoError /\ ~(e.axios /\ e.status = 404)
         /\ lookup.products[k].value = "null" => (e.axios /\ e.status = 404)

(* a run over three entities returned: the first does not exist, the second could
   not be fetched, the third was updated *)
C28_Witness ==
  /\ lookup.pc = "done"
  /\ lookup.productIds = MaxShort
  /\ lookup.reasons[1] = "Product not found"
  /\ lookup.products[2].thrown # "none"
  /\ lookup.reasons[3] = "none"

----------------------------------------------------------------------------
(* C29 as stated: the waits of consecutive throttled responses to one call are 4 s,
   8 s, 16 s, ...: the first is 4 s and each later one is twice the one before. *)
C29_ThrottleBackoffDoubles ==
  \A c \in Callers :
    (call[c].pc = "throttleWait" /\ call[c].transientSeen = 0) =>
      call[c].waitTime = (IF call[c].previousWait = 0 THEN Ms(4000)
                          ELSE 2 * call[c].previousWait)

----------------------------------------------------------------------------
(* C30 as stated: the list returned holds the IDs of all the products of the
   catalogue that lack one of the two channels, the IDs collected before a fallback
   included. *)
C30_ScanKeepsEarlierPages ==
  scan.returned =>
    /\ scan.collected \subseteq scan.result
    /\ scan.result = MissingChannels(scan.catalogue)

----------------------------------------------------------------------------
(* C31: within one invocation of the orchestrator at most maxConcurrent entity updates
   are in flight at any moment: the chunk has at most batchSize IDs, the sub-group
   awaited is the next maxConcurrent IDs of the chunk (fewer at its end), and
   maxConcurrent is, for every sub-group of the chunk, the value the head of the chunk
   left *)
PendingUpdates == {k \in DOMAIN results : results[k].state = "pending"}
C31_BoundedInFlight ==
  /\ Cardinality(PendingUpdates) <= maxConcurrent
  /\ opc \in {"await", "subDelay"} =>
       /\ Len(Batch(Cur)) <= batchSize
       /\ j < Len(Batch(Cur))
       /\ Len(results) = Min(maxConcurrent, Len(Batch(Cur)) - j)
       /\ \A k \in DOMAIN results : results[k].id = productIds[i + j + k]
       /\ maxConcurrent = CASE chunks.adapted = "decreased" -> Max(1, chunks.before - 1)
                             [] chunks.adapted = "increased" -> chunks.before + 1
                             [] OTHER -> chunks.before
C31_Witness ==
  /\ opc = "await" /\ j > 0 /\ i > 0
  /\ maxConcurrent = concurrencyCap
  /\ Cardinality(PendingUpdates) = concurrencyCap

(* C32: the delay after a sub-group and the delay after a chunk follow the same tiers
   of the success rate: below 0.5 the longest (5 s, 10 s), from 0.5 to below 1.0 the
   medium one (2 s, 5 s), full success the baseline (1 s, 2 s); the last sub-group of a
   chunk and the last chunk are followed by no delay *)
TierDelayMs(rate, longest, medium, baseline) ==
  IF RateBelow(rate, 1, 2) THEN longest ELSE IF ~FullRate(rate) THEN medium ELSE baseline
SettledRate ==
  RateOf(Cardinality({k \in DOMAIN results : results[k].success}),
         Cardinality({k \in DOMAIN results : ~results[k].success}))
C32_DelayTiers ==
  /\ opc = "subDelay" =>
       /\ j + maxConcurrent < Len(Batch(Cur))
       /\ chunks.delayMs = TierDelayMs(SettledRate, 5000, 2000, 1000)
  /\ opc = "chunkDelay" =>
       /\ i + batchSize < Len(productIds)
       /\ chunks.delayMs = TierDelayMs(lastBatchSuccessRate, 10000, 5000, 2000)
  /\ opc \notin {"subDelay", "chunkDelay"} => chunks.delayMs = 0

(* C40: updatedProducts and failedProducts each list their IDs in the relative order
   of productIds, whatever the order in which the updates of a sub-group ended: after
   every tally, updatedProducts is the IDs at the tallied positions whose update
   succeeded, in the order of the positions, and failedProducts the others *)
RECURSIVE AtPositions(_, _)
AtPositions(n, succeeded) ==
  IF n = 0 THEN <<>>
  ELSE IF (outcomeAt[n] = "updated") = succeeded
    THEN Append(AtPositions(n - 1, succeeded), productIds[n])
    ELSE AtPositions(n - 1, succeeded)
C40_InputOrderKept ==
  LET tallied == Len(updatedProducts) + Len(failedProducts) IN
    /\ tallied <= Len(productIds)
    /\ \A p \in 1..tallied : p \in DOMAIN outcomeAt
    /\ updatedProducts = AtPositions(tallied, TRUE)
    /\ failedProducts = AtPositions(tallied, FALSE)
    /\ opc = "returned" =>
         /\ tallied = Len(productIds)
         /\ response.updatedProducts = updatedProducts
         /\ response.failedProducts = failedProducts
C40_Witness ==
  /\ opc = "returned" /\ chunks.overtaken
  /\ Len(response.updatedProducts) >= 2 /\ Len(response.failedProducts) >= 1
  /\ response.updatedProducts[1] # response.updatedProducts[2]

(* C33: in both bulk orchestrators two entities that failed with different error
   texts of the remote (the message of a GraphQL error, the message of a user error of
   an alias) are recorded under different entries of the failure breakdown, and the
   message recorded for a failed entity contains the text the remote reported
   (entities are IDs that occur once in the request) *)
RemoteText(outcome) ==
  CASE outcome = "gqlThrottled" -> "Throttled"
    [] outcome = "gqlError" -> "Internal error"
    [] outcome = "userError" -> "Publication not found"
    [] OTHER -> ""
includesText(m, text) ==
  \E prefix \in {"Failed to update product sales channels: GraphQL error: ",
                 "Failed to update product sales channels: Mutation error: ",
                 "Failed to update Google attributes: GraphQL error: ",
                 "Failed to update Google attributes: Mutation error: "} :
    m = prefix \o text
C33_RemoteTextRecorded ==
  LET entities == {n \in DOMAIN outcomeAt :
                     /\ RemoteText(outcomeAt[n]) # ""
                     /\ \A r \in DOMAIN productIds :
                          productIds[r] = productIds[n] => r = n} IN
    opc = "returned" =>
      \A p \in entities :
        /\ includesText(productErrors[productIds[p]], RemoteText(outcomeAt[p]))
        /\ productErrors[productIds[p]] \in DOMAIN response.errorMap
        /\ \A q \in entities :
             RemoteText(outcomeAt[q]) # RemoteText(outcomeAt[p])
               => productErrors[productIds[p]] # productErrors[productIds[q]]

(* C34: after updateProductSalesChannels(p, S) has returned, for every publication
   known to the remote the product is published to it if and only if its name is in
   S: one publish or unpublish mutation was sent per publication of the remote, in
   documents of at most 5, and the mutations are those of the gid form of the ID *)
C34_PublishedIffChosen ==
  publish.pc = "returned" =>
    /\ \A k \in 1..publish.remote : k \in publish.after <=> k \in publish.salesChannels
    /\ Len(publish.mutations) = publish.remote
    /\ \A g \in DOMAIN publish.groups : publish.groups[g] <= mutationBatchSize
    /\ publish.mutations =
         Mutations([publish.productId EXCEPT !.form = "gid"], publish.salesChannels,
                   PublicationMapOf(publish.remote))

(* C35: on one SchedulerService the runs of processNewProducts never overlap: at most
   one run is in progress, and a call that arrives while a run is in progress is
   skipped: it sends no request, starts no run and leaves nothing behind that a later
   step turns into a run (a run starts only in the step of a call) *)
RunsInProgress == {r \in DOMAIN scheduler.runs : scheduler.runs[r].pc # "ended"}
C35_RunsNeverOverlap ==
  /\ [](Cardinality(RunsInProgress) <= 1)
  /\ [][/\ (scheduler'.calls > scheduler.calls /\ RunsInProgress # {}) =>
             /\ scheduler'.runs = scheduler.runs
             /\ scheduler'.remoteCalls = scheduler.remoteCalls
             /\ scheduler'.skipped = scheduler.skipped + 1
        /\ Len(scheduler'.runs) > Len(scheduler.runs) =>
             scheduler'.calls > scheduler.calls /\ RunsInProgress = {}]_vars
C35_Witness ==
  /\ scheduler.skipped >= 2
  /\ Len(scheduler.runs) = 2
  /\ scheduler.runs[1].exit = "completed"
  /\ scheduler.runs[2].pc = "bulkUpdate"

(* C36: isRunning is released on every exit path of processNewProducts, so that it
   is set exactly while a run is in progress, and the first call after a run has
   ended starts a new run *)
C36_FlagReleasedOnEveryExit ==
  /\ [](scheduler.isRunning <=> RunsInProgress # {})
  /\ [][(scheduler'.calls > scheduler.calls /\ RunsInProgress = {}) =>
           /\ Len(scheduler'.runs) = Len(scheduler.runs) + 1
           /\ scheduler'.skipped = scheduler.skipped]_vars
C36_Witness ==
  /\ Len(scheduler.runs) = 4
  /\ {scheduler.runs[r].exit : r \in 1..3} = {"gqlErrors", "noProducts", "exception"}
  /\ scheduler.runs[3].brokeOff
  /\ scheduler.runs[4].exit = "completed"

(* C38: a makeRequest call that the remote throttles only finitely many times
   eventually returns or raises; a call that the remote throttles for ever retries
   for ever and never raises, its retry counter never above 1 and its throttle wait
   never above 8 s *)
RetryEnded == retry.pc \in {"returned", "raised"}
C38_EndsUnlessThrottledForEver ==
  /\ (retry.pc = "consumeToken" /\ retry.remote = "answers") ~> RetryEnded
  /\ [](retry.remote = "throttles" =>
          /\ ~RetryEnded
          /\ retry.retryCount <= 1
          /\ retry.waitTime <= Ms(8000))
  /\ [](retry.remote = "throttles" => <>(retry.pc = "post"))
  /\ [](retry.remote = "throttles" => <>(retry.pc = "throttleWait"))
C38_Witness ==
  /\ retry.remote = "answers"
  /\ retry.pc = "raised"
  /\ retry.retries = updateRetries
  /\ retry.retryCount = updateRetries + 1
  /\ retry.throttles = 0
  /\ retry.waitTime = ThrottleWaitTicks(updateRetries + 1)

(* C39: the publication map of a StoreService is fetched at most once, whatever the
   interleaving of the concurrent callers of getPublicationIds: at most one
   publication-list request is under way at any time, and none once the cache is
   filled *)
C39_PublicationsFetchedOnce ==
  LET fetching == {c \in Callers : call[c].pc = "pubFetch"} IN
    /\ Cardinality(fetching) <= 1
    /\ publicationMapCache # NoCache => fetching = {}

(* C37: when the answer to a page of the scan carries a GraphQL errors payload that
   is not a throttle, the scan goes on with the next page: the page answered so is
   not requested again (and so the scan ends on every finite catalogue) *)
C37_ErrorsPageNotRequestedAgain ==
  /\ ~scan.again
  /\ (scan.pc = "main" /\ scan.errorsAt # -1) => scan.cursor > scan.errorsAt
====
